---- MODULE Spec2Model ----
(***************************************************************************)
(* Session state machine and game loop of the headless Minecraft client    *)
(* (curiosity/minecraft/bot.py, curiosity/minecraft/protocol.py).          *)
(*                                                                         *)
(* The client runs on a cooperative scheduler: a task runs from one        *)
(* suspension point (socket read, writer drain, sleep, an awaited event    *)
(* handler) to the next without interruption.  Every action below is one   *)
(* such uninterrupted segment of one task:                                 *)
(*   - the receive loop  (MinecraftBot.run and the packet handlers),       *)
(*   - the position tick (MinecraftBot._position_update_loop),             *)
(*   - the host          (bot API calls made from other tasks),            *)
(*   - the environment   (the peer closing the connection).                *)
(* A drain or an awaited event handler may or may not really suspend; the  *)
(* model lets other tasks run there, which includes the case that they do  *)
(* not.                                                                    *)
(***************************************************************************)
EXTENDS Integers, Sequences, FiniteSets, TLC

\* ---------------------------------------------------------------- bounds
\* Per-session event counters saturate at MaxCount.
MaxCount == 2

\* ------------------------------------------------------- ConnectionState
HANDSHAKING == 0
STATUS == 1
LOGIN == 2
CONFIGURATION == 3
PLAY == 4

\* ---------------------------------------------- clientbound packet ids
\* Login and Configuration ids are the literals of _setup_packet_handlers.
LOGIN_DISCONNECT == 0
ENCRYPTION_REQUEST == 1
LOGIN_SUCCESS == 2
SET_COMPRESSION == 3
CONFIG_PLUGIN_MESSAGE == 1
CONFIG_DISCONNECT == 2
CONFIG_FINISH == 3
CONFIG_KEEP_ALIVE == 4
CONFIG_REGISTRY_DATA == 7
CONFIG_RESOURCE_PACK_PUSH == 9
CONFIG_FEATURE_FLAGS == 12
CONFIG_KNOWN_PACKS == 14
\* PlayPacketIds
SPAWN_ENTITY == 1
BLOCK_UPDATE == 9
DISCONNECT == 29
UNLOAD_CHUNK == 34
KEEP_ALIVE == 39
CHUNK_DATA_AND_UPDATE_LIGHT == 40
LOGIN_PLAY == 44
PING == 54
SYNCHRONIZE_PLAYER_POSITION == 65
REMOVE_ENTITIES == 67
SET_HEALTH == 93
UPDATE_TIME == 100
START_CONFIGURATION == 105

\* The packet ids the server is let to send (UPDATE_TIME stands for the
\* Play handlers that only update the world view and write nothing).
PacketIds ==
    { LOGIN_DISCONNECT, ENCRYPTION_REQUEST, LOGIN_SUCCESS, SET_COMPRESSION,
      CONFIG_KEEP_ALIVE, CONFIG_REGISTRY_DATA, CONFIG_RESOURCE_PACK_PUSH,
      CONFIG_FEATURE_FLAGS, CONFIG_KNOWN_PACKS,
      DISCONNECT, KEEP_ALIVE, LOGIN_PLAY, PING, SYNCHRONIZE_PLAYER_POSITION,
      SET_HEALTH, UPDATE_TIME, START_CONFIGURATION }

\* -------------------------------------------------------------- codec
\* VarInt.read(data, offset): 7 bits per byte, least significant group
\* first; fails when the input ends inside the number, or when a fifth byte
\* carries the continuation bit.  The checker's integers end at 2^31 - 1, so
\* the fifth group is kept apart from the 28 bits below it: with
\* result = low + top * 2^28, `result >= 2**31` is top >= 8 and
\* `result -= 2**32` is low + (top - 16) * 2^28.  A fifth group of 24 or
\* more gives a value of 2^31 or more, beyond the checker's integers: it is
\* held at the largest of them and marked `wide`.
RECURSIVE VarIntReadLoop(_, _, _, _)
VarIntReadLoop(data, offset, result, shift) ==
    IF offset >= Len(data)
    THEN [ok |-> FALSE, value |-> 0, offset |-> offset, wide |-> FALSE]
    ELSE LET byte == data[offset + 1]
             top  == byte % 128
         IN  IF byte < 128
             THEN [ok |-> TRUE,
                   value |-> IF shift < 28 THEN result + top * (2 ^ shift)
                             ELSE IF top >= 24 THEN 2147483647
                             ELSE IF top >= 8
                                  THEN result + (top - 16) * (2 ^ 28)
                                  ELSE result + top * (2 ^ 28),
                   offset |-> offset + 1,
                   wide |-> (shift >= 28 /\ top >= 24)]
             ELSE IF shift + 7 >= 32
                  THEN [ok |-> FALSE, value |-> 0, offset |-> offset + 1,
                        wide |-> FALSE]
                  ELSE VarIntReadLoop(data, offset + 1,
                                      result + top * (2 ^ shift), shift + 7)

VarIntRead(data, offset) == VarIntReadLoop(data, offset, 0, 0)

\* VarInt.write(value): groups of 7 bits until the rest is zero.  A negative
\* value is written as value + 2**32, which always takes five groups: the 28
\* low bits and the group (value div 2^28) + 16.
RECURSIVE VarIntWriteLoop(_)
VarIntWriteLoop(value) ==
    LET byte == value % 128
        rest == value \div 128
    IN  IF rest # 0 THEN <<byte + 128>> \o VarIntWriteLoop(rest)
        ELSE <<byte>>

\* Variant: only the four low groups are written.
VarIntWriteLow(value) == VarIntWriteLoop(value % (2 ^ 28))

VarIntWrite(value) ==
    IF value < 0
    THEN LET low == value % (2 ^ 28)
         IN  << (low % 128) + 128,
                ((low \div 128) % 128) + 128,
                ((low \div 16384) % 128) + 128,
                ((low \div 2097152) % 128) + 128,
                (value \div (2 ^ 28)) + 16 >>
    ELSE VarIntWriteLoop(value)

\* PacketBuffer.read_long: struct.unpack(">q") of 8 bytes.  The signed
\* 64-bit result v is held as <<hi, lo>> with v = hi * 2^48 + (lo as an
\* unsigned 48-bit big-endian number), hi the signed value of the first two
\* bytes.
read_long(bytes) ==
    LET top == bytes[1] * 256 + bytes[2]
    IN  [hi |-> IF top >= 32768 THEN top - 65536 ELSE top,
         lo |-> SubSeq(bytes, 3, 8)]

\* Variant: the long packed as a 32-bit int, zero-extended to 8 bytes.
write_long_as_int(v) == <<0, 0, 0, 0>> \o SubSeq(v.lo, 3, 6)

\* PacketBuffer.write_long: struct.pack(">q")
write_long(v) ==
    LET top == v.hi % 65536
    IN  <<top \div 256, top % 256>> \o v.lo

\* ------------------------------------------------------- packet inputs
\* Wire forms of the KeepAlive ids the server sends (1 and
\* 0xDEADBEEFCAFEBABE, a negative long).
LongWires ==
    { <<0, 0, 0, 0, 0, 0, 0, 1>>,
      <<222, 173, 190, 239, 202, 254, 186, 190>> }

\* Wire forms of the teleport ids the server sends (42 and 128).
VarIntWires == { <<42>>, <<128, 1>> }

\* SetHealth values: health (a float, whole values here) and food.
Healths == { -1, 0, 20 }
Foods == { 10 }



\* ------------------------------------------------------------- state
VARIABLES
    \* MinecraftProtocol
    state,              \* _state
    threshold,          \* _compression_threshold
    connected,          \* _connected
    writerOpen,         \* _writer is set and not closed
    \* the socket, as the event loop sees it
    connLost,           \* the connection was lost (reads end, drains raise)
    \* MinecraftBot
    running,            \* _running
    in_configuration,   \* _in_configuration
    joined_game,        \* _joined_game
    spawn_confirmed,    \* _spawn_confirmed
    health,             \* _player.health
    food,               \* _player.food
    auto_reconnect,     \* _config.auto_reconnect
    \* the position tick task (_position_update_task and its status)
    tick,               \* "none" | "created" | "sleep" | "drain" | "done"
    tickCancel,         \* cancel() was called on it and is not yet delivered
    \* the receive loop
    rpc,                \* where run() stands
    handler,            \* the handler of the packet dispatched last
    pkt,                \* that packet
    outcome,            \* "idle" | "running" | "returned" | "raised" | "dropped"
    \* history of the packet dispatched last, and of the session
    firstSent,          \* first serverbound packet written since its dispatch
    handlerSent,        \* packets its handler wrote, in order
    handlerEmitted,     \* events its handler emitted, in order
    nspawn,             \* `spawn` emissions of this session (saturating)
    njoin,              \* `join` emissions of this session (saturating)
    ackedFinish,        \* a FinishAck was written in Configuration this session
    \* run(): the invocations entered and not yet returned (saturating)
    runs,
    \* MinecraftProtocol, at the level of bytes
    receive_buffer,     \* _receive_buffer
    rxpc,               \* where the loop stands in receive_packet
    rx,                 \* what receive_packet did last
    tx,                 \* the frame send_packet wrote last
    \* WorldState
    entities,           \* _world.entities: entity id -> entity type
    removed,            \* the ids RemoveEntities has removed this session
    loaded_chunks,      \* the keys of _world.loaded_chunks
    block_changes,      \* _world.block_changes, each record by arrival number
    \* the player's view, in whole degrees
    yaw,                \* _player.position.yaw
    pitch,              \* _player.position.pitch
    target_yaw,         \* _target_yaw: <<>> for None, else <<degrees>>
    target_pitch,       \* _target_pitch, likewise
    \* the event handlers of one event name, and one _emit of that event
    event_handlers,     \* _event_handlers[event]: what each handler does
    emit_pos,           \* the index _emit's loop stands at; 0 outside _emit
    emit_awaiting,      \* _emit awaits the coroutine of the handler there
    invoked,            \* the indices invoked by the _emit under way or last
    emit_raised,        \* that _emit let an exception out to its caller
    \* the codec applied to one input
    probe,              \* the input and what the codec returned for it
    \* a stream of frames on its way through the socket
    stream_frames,      \* the frames the server wrote, in order
    stream_left,        \* their bytes the socket has not delivered yet
    handed,             \* what receive_packet handed off, in order
    \* the socket writer, as seen by the tasks that write
    sock,               \* the bytes handed to writer.write(), in order
    cipher_pos,         \* the bytes the encryptor has taken so far
    frames_out,         \* the frames built by send_packet, in that order
    wpc,                \* per writing task: its position in send_packet
    encryption,         \* an EncryptionContext is installed
    \* the host
    hpc,                \* where a disconnect() called by the host stands
    ndisc,              \* `disconnect` emissions of this session (saturating)
    host_stopped,       \* the host called disconnect() and not run() since
    \* tick tasks that _position_update_task no longer refers to
    orphans             \* how many of them are alive (saturating)

protoVars == <<state, threshold, connected, writerOpen, connLost>>
\* (_last_keep_alive, _last_keep_alive_time and the player's identity fields
\* are only ever assigned, never read; they are not followed.)
botVars == <<running, in_configuration, joined_game, spawn_confirmed,
             health, food, auto_reconnect>>
tickVars == <<tick, tickCancel>>
loopVars == <<rpc, handler, pkt, outcome>>
sentVars == <<firstSent, handlerSent, ackedFinish>>
eventVars == <<handlerEmitted, nspawn, njoin>>
codecVars == <<receive_buffer, rxpc, rx, tx>>
worldVars == <<entities, removed>>
chunkVars == <<loaded_chunks>>
blockVars == <<block_changes>>
lookVars == <<yaw, pitch, target_yaw, target_pitch>>
emitVars == <<event_handlers, emit_pos, emit_awaiting, invoked, emit_raised>>
probeVars == <<probe>>
streamVars == <<stream_frames, stream_left, handed>>
writerVars == <<sock, cipher_pos, frames_out, wpc, encryption>>
hostVars == <<hpc, ndisc, host_stopped>>
taskVars == <<orphans>>
moreVars == <<writerVars, hostVars, taskVars>>
restVars == <<chunkVars, blockVars, lookVars, emitVars, probeVars, streamVars,
              moreVars>>
sideVars == <<codecVars, worldVars, restVars>>
vars == <<protoVars, botVars, tickVars, loopVars, sentVars, eventVars, runs,
          sideVars>>

NoPkt == [by |-> "none", op |-> "none", id |-> -1, st |-> -1, data |-> <<>>]
NoRecv == [id |-> -1, ok |-> TRUE, wire |-> <<>>, health |-> 0, food |-> 0]

\* receive_packet has returned nothing yet; send_packet has written nothing.
NoRx == [kind |-> "none", id |-> -1, body |-> <<>>, declared |-> -1,
         size |-> -1]
NoTx == [id |-> -1, data |-> <<>>, frame |-> <<>>]

\* The tasks that call send_packet: the receive loop (its handlers), the
\* position tick and a caller of the bot API; a task outside send_packet.
WriterTasks == { "recv", "tick", "api" }
Idle == [at |-> "idle", rest |-> <<>>]

\* The codec has been applied to nothing yet.  A probe holds the operation,
\* the integer written and its bytes (VarInt.write), the bytes read, what
\* VarInt.read made of them, and for read_string whether it returned, the
\* string and the buffer's offset after it.
NoProbe ==
    [op |-> "none", n |-> 0, written |-> <<>>, data |-> <<>>,
     read |-> [ok |-> FALSE, value |-> 0, offset |-> 0, wide |-> FALSE],
     ok |-> FALSE, string |-> <<>>, offset |-> 0]

\* A received packet: its id, whether its body holds every field its handler
\* reads (a body that does not makes the first read raise), and the fields
\* the model follows.
Recv(id, ok) == [id |-> id, ok |-> ok, wire |-> <<>>, health |-> 0, food |-> 0]
RecvWire(id, ok, wire) == [Recv(id, ok) EXCEPT !.wire = wire]

\* A serverbound packet as written by `by` through protocol method `op`:
\* its id, the connection state at the write, and its payload.
Pkt(by, op, id, data) ==
    [by |-> by, op |-> op, id |-> id, st |-> state, data |-> data]

Bump(n) == IF n < MaxCount THEN n + 1 ELSE n

\* ----------------------------------------------------------- dispatch
\* Variant: the table keyed by the packet id alone.
packet_handlers_by_id(st, id) ==
    CASE id = LOGIN_SUCCESS -> "handle_login_success"
      [] id = SET_COMPRESSION -> "handle_set_compression"
      [] id = KEEP_ALIVE -> "handle_keep_alive"
      [] id = LOGIN_PLAY -> "handle_login_play"
      [] OTHER -> "none"

\* MinecraftBot._setup_packet_handlers: (state, packet id) -> handler.
packet_handlers(st, id) ==
    IF st = LOGIN THEN
        CASE id = LOGIN_DISCONNECT -> "handle_login_disconnect"
          [] id = ENCRYPTION_REQUEST -> "handle_encryption_request"
          [] id = LOGIN_SUCCESS -> "handle_login_success"
          [] id = SET_COMPRESSION -> "handle_set_compression"
          [] OTHER -> "none"
    ELSE IF st = CONFIGURATION THEN
        CASE id = CONFIG_PLUGIN_MESSAGE -> "handle_config_plugin_message"
          [] id = CONFIG_DISCONNECT -> "handle_config_disconnect"
          [] id = CONFIG_FINISH -> "handle_config_finish"
          [] id = CONFIG_KEEP_ALIVE -> "handle_config_keep_alive"
          [] id = CONFIG_REGISTRY_DATA -> "handle_config_registry_data"
          [] id = CONFIG_RESOURCE_PACK_PUSH -> "handle_config_resource_pack_push"
          [] id = CONFIG_FEATURE_FLAGS -> "handle_config_feature_flags"
          [] id = CONFIG_KNOWN_PACKS -> "handle_config_known_packs"
          [] OTHER -> "none"
    ELSE IF st = PLAY THEN
        CASE id = KEEP_ALIVE -> "handle_keep_alive"
          [] id = SYNCHRONIZE_PLAYER_POSITION -> "handle_synchronize_player_position"
          [] id = SET_HEALTH -> "handle_update_health"
          [] id = DISCONNECT -> "handle_disconnect"
          [] id = LOGIN_PLAY -> "handle_login_play"
          [] id = UPDATE_TIME -> "handle_set_time"
          [] id = START_CONFIGURATION -> "handle_start_configuration"
          [] id = PING -> "handle_ping"
          [] id = SPAWN_ENTITY -> "handle_spawn_entity"
          [] id = REMOVE_ENTITIES -> "handle_remove_entities"
          [] id = CHUNK_DATA_AND_UPDATE_LIGHT -> "handle_chunk_data"
          [] id = BLOCK_UPDATE -> "handle_block_update"
          [] id = UNLOAD_CHUNK -> "handle_unload_chunk"
          [] OTHER -> "none"
    ELSE "none"

\* run(): the loop condition, evaluated with the running flag `run`; the
\* loop reads the next packet or leaves for the finally block.
LoopCheck(run) == IF run /\ connected THEN "recv" ELSE "finally"

\* _handle_packet begins: wait_for(receive_packet()) returned packet p and
\* the handler registered for (state, p.id) is h.
Dispatched(h, p) ==
    /\ rpc = "recv"
    /\ packet_handlers(state, p.id) = h
    /\ handler' = h
    /\ pkt' = p

\* The FinishAck of the Configuration state: id 0x03 written by
\* send_configuration_finish_ack while the state is Configuration.
IsFinishAck(p) ==
    p.op = "send_configuration_finish_ack" /\ p.id = 3 /\ p.st = CONFIGURATION

\* send_packet: writer.write(frame) happens before the first suspension of
\* the call (the drain).  Written(first, p) is the history after `p` was
\* written, `first` being the first packet written since the dispatch.
Written(first, p) ==
    /\ firstSent' = (IF first = NoPkt THEN p ELSE first)
    /\ ackedFinish' = (ackedFinish \/ IsFinishAck(p))

\* A packet written by another task, or by the receive loop outside a
\* handler: it enters the history of the dispatched packet only while its
\* handler is running.
WrittenAside(p) ==
    /\ firstSent' = (IF outcome = "running" /\ firstSent = NoPkt THEN p
                     ELSE firstSent)
    /\ ackedFinish' = (ackedFinish \/ IsFinishAck(p))

\* The receive loop moves on from the packet dispatched last: its history
\* is dropped.
Forgotten ==
    /\ handler' = "none"
    /\ pkt' = NoRecv
    /\ outcome' = "idle"
    /\ firstSent' = NoPkt
    /\ handlerSent' = <<>>
    /\ handlerEmitted' = <<>>

\* send_packet from a handler segment: raises RuntimeError without a writer,
\* else writes the frame and awaits the drain at `cont`.  `first` and `sent`
\* are the history before the write.
SendThen(first, sent, p, cont) ==
    IF writerOpen
    THEN /\ Written(first, p)
         /\ handlerSent' = Append(sent, p)
         /\ outcome' = "running"
         /\ rpc' = cont
    ELSE /\ firstSent' = first
         /\ ackedFinish' = ackedFinish
         /\ handlerSent' = sent
         /\ outcome' = "raised"
         /\ rpc' = LoopCheck(running)

\* _emit(event, args) from a handler segment, awaited at `cont`.
EmitThen(emitted, ev, args, cont) ==
    /\ handlerEmitted' = Append(emitted, [ev |-> ev, args |-> args])
    /\ outcome' = "running"
    /\ rpc' = cont

\* A handler that neither writes nor emits in its first segment.
Quiet ==
    /\ firstSent' = NoPkt
    /\ handlerSent' = <<>>
    /\ handlerEmitted' = <<>>
    /\ ackedFinish' = ackedFinish


\* ------------------------------------------------------------- Init
\* The bot after MinecraftBot.__init__, before the host calls run().
Init ==
    /\ state = HANDSHAKING
    /\ threshold = -1
    /\ connected = FALSE
    /\ writerOpen = FALSE
    /\ connLost = FALSE
    /\ running = FALSE
    /\ in_configuration = FALSE
    /\ joined_game = FALSE
    /\ spawn_confirmed = FALSE
    /\ health = 20
    /\ food = 20
    /\ auto_reconnect \in BOOLEAN
    /\ tick = "none"
    /\ tickCancel = FALSE
    /\ rpc = "start"
    /\ handler = "none"
    /\ pkt = NoRecv
    /\ outcome = "idle"
    /\ firstSent = NoPkt
    /\ handlerSent = <<>>
    /\ handlerEmitted = <<>>
    /\ nspawn = 0
    /\ njoin = 0
    /\ ackedFinish = FALSE
    /\ runs = 0
    /\ receive_buffer = <<>>
    /\ rxpc = "call"
    /\ rx = NoRx
    /\ tx = NoTx
    /\ entities = <<>>
    /\ removed = {}
    /\ loaded_chunks = {}
    /\ block_changes = <<>>
    /\ yaw = 0
    /\ pitch = 0
    /\ target_yaw = <<>>
    /\ target_pitch = <<>>
    /\ event_handlers = <<>>
    /\ emit_pos = 0
    /\ emit_awaiting = FALSE
    /\ invoked = <<>>
    /\ emit_raised = FALSE
    /\ probe = NoProbe
    /\ stream_frames = <<>>
    /\ stream_left = <<>>
    /\ handed = <<>>
    /\ sock = <<>>
    /\ cipher_pos = 0
    /\ frames_out = <<>>
    /\ wpc = [t \in WriterTasks |-> Idle]
    /\ encryption = FALSE
    /\ hpc = "none"
    /\ ndisc = 0
    /\ host_stopped = FALSE
    /\ orphans = 0

\* ---------------------------------------------------- run(): connect()
\* What the beginning and the end of a session leave alone.
SessionSide == <<codecVars, worldVars, chunkVars, blockVars, lookVars,
                 emitVars, probeVars, streamVars, writerVars, taskVars, hpc,
                 host_stopped>>

\* connect() creates a new MinecraftProtocol (a new session) and awaits
\* open_connection.
run_connect ==
    /\ rpc = "start"
    /\ state' = HANDSHAKING
    /\ threshold' = -1
    /\ connected' = FALSE
    /\ writerOpen' = FALSE
    /\ connLost' = FALSE
    /\ rpc' = "open"
    /\ handler' = "none"
    /\ pkt' = NoRecv
    /\ outcome' = "idle"
    /\ firstSent' = NoPkt
    /\ handlerSent' = <<>>
    /\ handlerEmitted' = <<>>
    /\ nspawn' = 0
    /\ njoin' = 0
    /\ ackedFinish' = FALSE
    /\ UNCHANGED <<botVars, tickVars>>
    /\ runs' = Bump(runs)
    /\ ndisc' = 0
    /\ UNCHANGED SessionSide

\* open_connection succeeded; send_handshake(LOGIN) writes the handshake
\* and awaits the drain.
connect_opened ==
    /\ rpc = "open"
    /\ connected' = TRUE
    /\ writerOpen' = TRUE
    /\ WrittenAside(Pkt("recv", "send_handshake", 0, <<>>))
    /\ rpc' = "hs_drain"
    /\ UNCHANGED <<state, threshold, connLost, botVars, tickVars, handler, pkt,
                   outcome, handlerSent, eventVars>>
    /\ UNCHANGED <<runs, sideVars>>

\* open_connection raised: connect() returns False and run() returns.
connect_refused ==
    /\ rpc = "open"
    /\ rpc' = "returned"
    /\ UNCHANGED <<protoVars, botVars, tickVars, handler, pkt, outcome,
                   sentVars, eventVars>>
    /\ runs' = 0
    /\ UNCHANGED sideVars

\* send_handshake resumes: the state becomes next_state (LOGIN); then
\* send_login_start writes LoginStart and awaits the drain.
send_handshake_state == LOGIN

connect_handshake_sent ==
    /\ rpc = "hs_drain"
    /\ ~connLost
    /\ state' = send_handshake_state
    /\ WrittenAside([Pkt("recv", "send_login_start", 0, <<>>)
                       EXCEPT !.st = send_handshake_state])
    /\ rpc' = "ls_drain"
    /\ UNCHANGED <<threshold, connected, writerOpen, connLost, botVars,
                   tickVars, handler, pkt, outcome, handlerSent, eventVars>>
    /\ UNCHANGED <<runs, sideVars>>

\* send_handshake resumes, then send_login_start raises before it writes:
\* the username cannot be encoded (uuid3 and write_string encode it as
\* UTF-8).  connect() returns False and run() returns.  The username is
\* fixed configuration, so this is the first connection attempt.
connect_login_start_raised ==
    /\ rpc = "hs_drain"
    /\ ~connLost
    /\ runs = 1
    /\ state' = send_handshake_state
    /\ rpc' = "returned"
    /\ runs' = 0
    /\ UNCHANGED <<threshold, connected, writerOpen, connLost, botVars,
                   tickVars, handler, pkt, outcome, sentVars, eventVars>>
    /\ UNCHANGED sideVars

\* connect() completes: running, and the join and spawn flags are reset;
\* run() enters its loop and awaits the first packet.
connect_done ==
    /\ rpc = "ls_drain"
    /\ ~connLost
    /\ running' = TRUE
    /\ joined_game' = FALSE
    /\ spawn_confirmed' = FALSE
    /\ rpc' = LoopCheck(TRUE)
    /\ UNCHANGED <<protoVars, in_configuration, health, food,
                   auto_reconnect, tickVars, handler, pkt, outcome, sentVars,
                   eventVars>>
    /\ UNCHANGED <<runs, sideVars>>

\* A drain inside connect() raised: connect() returns False, run() returns.
connect_failed ==
    /\ rpc \in {"hs_drain", "ls_drain"}
    /\ connLost
    /\ rpc' = "returned"
    /\ UNCHANGED <<protoVars, botVars, tickVars, handler, pkt, outcome,
                   sentVars, eventVars>>
    /\ runs' = 0
    /\ UNCHANGED sideVars


\* ------------------------------------------------- run(): the receive loop
\* Variant: a timeout is never fatal.
timeout_continues_always(st) == TRUE

\* run(), `except asyncio.TimeoutError`: `continue` in Play, `break`
\* otherwise.
timeout_continues(st) == st = PLAY

\* wait_for(receive_packet()) timed out after 30 s.
recv_timeout ==
    /\ rpc = "recv"
    /\ rpc' = (IF timeout_continues(state) THEN LoopCheck(running)
               ELSE "finally")
    /\ Forgotten
    /\ UNCHANGED <<protoVars, botVars, tickVars, ackedFinish, nspawn, njoin>>
    /\ UNCHANGED <<runs, sideVars>>

\* receive_packet read zero bytes: ConnectionError ends the loop.
recv_closed ==
    /\ rpc = "recv"
    /\ connLost
    /\ rpc' = "finally"
    /\ Forgotten
    /\ UNCHANGED <<protoVars, botVars, tickVars, ackedFinish, nspawn, njoin>>
    /\ UNCHANGED <<runs, sideVars>>

\* _handle_packet: no handler is registered for (state, packet id).
handle_unregistered ==
    \E id \in PacketIds :
        /\ Dispatched("none", Recv(id, TRUE))
        /\ Quiet
        /\ outcome' = "dropped"
        /\ rpc' = LoopCheck(running)
        /\ UNCHANGED <<protoVars, botVars, tickVars, nspawn, njoin>>
        /\ UNCHANGED <<runs, sideVars>>

\* ------------------------------------------------------ Login handlers
handle_login_disconnect ==
    \E ok \in BOOLEAN :
        /\ Dispatched("handle_login_disconnect", Recv(LOGIN_DISCONNECT, ok))
        /\ Quiet
        /\ running' = (IF ok THEN FALSE ELSE running)
        /\ outcome' = (IF ok THEN "returned" ELSE "raised")
        /\ rpc' = LoopCheck(running')
        /\ UNCHANGED <<protoVars, in_configuration, joined_game,
                       spawn_confirmed, health, food,
                       auto_reconnect, tickVars, nspawn, njoin>>
        /\ UNCHANGED <<runs, sideVars>>

handle_encryption_request ==
    \E ok \in BOOLEAN :
        /\ Dispatched("handle_encryption_request", Recv(ENCRYPTION_REQUEST, ok))
        /\ Quiet
        /\ running' = FALSE
        /\ outcome' = "returned"
        /\ rpc' = LoopCheck(FALSE)
        /\ UNCHANGED <<protoVars, in_configuration, joined_game,
                       spawn_confirmed, health, food,
                       auto_reconnect, tickVars, nspawn, njoin>>
        /\ UNCHANGED <<runs, sideVars>>

\* _handle_login_success, up to the drain of LoginAcknowledged.
handle_login_success ==
    \E ok \in BOOLEAN :
        /\ Dispatched("handle_login_success", Recv(LOGIN_SUCCESS, ok))
        /\ handlerEmitted' = <<>>
        /\ IF ok
           THEN SendThen(NoPkt, <<>>,
                         Pkt("recv", "send_login_acknowledged", 3, <<>>),
                         "la_drain")
           ELSE /\ firstSent' = NoPkt
                /\ handlerSent' = <<>>
                /\ ackedFinish' = ackedFinish
                /\ outcome' = "raised"
                /\ rpc' = LoopCheck(running)
        /\ UNCHANGED <<protoVars, botVars, tickVars, nspawn, njoin>>
        /\ UNCHANGED <<runs, sideVars>>

\* Variant: send_login_acknowledged leaves the state as it is.
send_login_acknowledged_state_kept == state

\* send_login_acknowledged: the state set after the drain.
send_login_acknowledged_state == CONFIGURATION

\* _handle_login_success resumes: state, _in_configuration, and
\* client-information written.
handle_login_success_acknowledged ==
    /\ rpc = "la_drain"
    /\ ~connLost
    /\ state' = send_login_acknowledged_state
    /\ in_configuration' = TRUE
    /\ SendThen(firstSent, handlerSent,
                [Pkt("recv", "send_configuration_client_information", 0, <<>>)
                   EXCEPT !.st = send_login_acknowledged_state],
                "tail_drain")
    /\ UNCHANGED <<threshold, connected, writerOpen, connLost, running,
                   joined_game, spawn_confirmed, health, food,
                   auto_reconnect, tickVars, handler, pkt, eventVars>>
    /\ UNCHANGED <<runs, sideVars>>

\* The thresholds the server sets (a negative one stands for "off").
Thresholds == { -1, 256 }

handle_set_compression ==
    \E ok \in BOOLEAN, t \in Thresholds :
        /\ Dispatched("handle_set_compression", Recv(SET_COMPRESSION, ok))
        /\ Quiet
        /\ threshold' = (IF ok THEN t ELSE threshold)
        /\ outcome' = (IF ok THEN "returned" ELSE "raised")
        /\ rpc' = LoopCheck(running)
        /\ UNCHANGED <<state, connected, writerOpen, connLost, botVars,
                       tickVars, nspawn, njoin>>
        /\ UNCHANGED <<runs, sideVars>>

\* ---------------------------------------------- Configuration handlers
\* Handlers that read their packet and change nothing the model follows:
\* plugin message, registry data, feature flags (Configuration) and the
\* world-view updates of Play.
ReadOnlyHandlers ==
    { "handle_config_plugin_message", "handle_config_registry_data",
      "handle_config_feature_flags", "handle_set_time" }

handle_read_only ==
    \E id \in PacketIds, ok \in BOOLEAN :
        /\ packet_handlers(state, id) \in ReadOnlyHandlers
        /\ Dispatched(packet_handlers(state, id), Recv(id, ok))
        /\ Quiet
        /\ outcome' = (IF ok THEN "returned" ELSE "raised")
        /\ rpc' = LoopCheck(running)
        /\ UNCHANGED <<protoVars, botVars, tickVars, nspawn, njoin>>
        /\ UNCHANGED <<runs, sideVars>>

handle_config_disconnect ==
    \E ok \in BOOLEAN :
        /\ Dispatched("handle_config_disconnect", Recv(CONFIG_DISCONNECT, ok))
        /\ Quiet
        /\ running' = (IF ok THEN FALSE ELSE running)
        /\ outcome' = (IF ok THEN "returned" ELSE "raised")
        /\ rpc' = LoopCheck(running')
        /\ UNCHANGED <<protoVars, in_configuration, joined_game,
                       spawn_confirmed, health, food,
                       auto_reconnect, tickVars, nspawn, njoin>>
        /\ UNCHANGED <<runs, sideVars>>

\* _handle_config_finish, up to the drain of the FinishAck.
handle_config_finish ==
    \E ok \in BOOLEAN :
        /\ Dispatched("handle_config_finish", Recv(CONFIG_FINISH, ok))
        /\ handlerEmitted' = <<>>
        /\ SendThen(NoPkt, <<>>,
                    Pkt("recv", "send_configuration_finish_ack", 3, <<>>),
                    "fa_drain")
        /\ UNCHANGED <<protoVars, botVars, tickVars, nspawn, njoin>>
        /\ UNCHANGED <<runs, sideVars>>

\* Variant: send_configuration_finish_ack leaves the state as it is.
send_configuration_finish_ack_state_kept == state

\* send_configuration_finish_ack: the state set after the drain.
send_configuration_finish_ack_state == PLAY

handle_config_finish_acknowledged ==
    /\ rpc = "fa_drain"
    /\ ~connLost
    /\ state' = send_configuration_finish_ack_state
    /\ in_configuration' = FALSE
    /\ outcome' = "returned"
    /\ rpc' = LoopCheck(running)
    /\ UNCHANGED <<threshold, connected, writerOpen, connLost, running,
                   joined_game, spawn_confirmed, health, food,
                   auto_reconnect, tickVars, handler, pkt, sentVars, eventVars>>
    /\ UNCHANGED <<runs, sideVars>>

\* send_keep_alive / send_configuration_keep_alive: the payload.
send_keep_alive_data(keep_alive_id) == write_long(keep_alive_id)

handle_config_keep_alive ==
    \E ok \in BOOLEAN, w \in LongWires :
        /\ Dispatched("handle_config_keep_alive",
                      IF ok THEN RecvWire(CONFIG_KEEP_ALIVE, TRUE, w)
                      ELSE Recv(CONFIG_KEEP_ALIVE, FALSE))
        /\ handlerEmitted' = <<>>
        /\ IF ok
           THEN SendThen(NoPkt, <<>>,
                         Pkt("recv", "send_configuration_keep_alive", 4,
                             send_keep_alive_data(read_long(w))),
                         "tail_drain")
           ELSE /\ firstSent' = NoPkt
                /\ handlerSent' = <<>>
                /\ ackedFinish' = ackedFinish
                /\ outcome' = "raised"
                /\ rpc' = LoopCheck(running)
        /\ UNCHANGED <<protoVars, botVars, tickVars, nspawn, njoin>>
        /\ UNCHANGED <<runs, sideVars>>

handle_config_resource_pack_push ==
    \E ok \in BOOLEAN :
        /\ Dispatched("handle_config_resource_pack_push",
                      Recv(CONFIG_RESOURCE_PACK_PUSH, ok))
        /\ handlerEmitted' = <<>>
        /\ IF ok
           THEN SendThen(NoPkt, <<>>,
                         Pkt("recv", "send_configuration_resource_pack_response",
                             6, <<3>>),
                         "tail_drain")
           ELSE /\ firstSent' = NoPkt
                /\ handlerSent' = <<>>
                /\ ackedFinish' = ackedFinish
                /\ outcome' = "raised"
                /\ rpc' = LoopCheck(running)
        /\ UNCHANGED <<protoVars, botVars, tickVars, nspawn, njoin>>
        /\ UNCHANGED <<runs, sideVars>>

\* The pack lists a KnownPacks packet holds: none, or the server's core
\* pack (namespace "m", id "c", version "1" as ASCII code points).
KnownPackLists == { <<>>, << <<(<<109>>), (<<99>>), (<<49>>)>> >> }

\* PacketBuffer.write_string: the UTF-8 bytes (for ASCII text, the code
\* points) after their number as a VarInt.
write_string(value) == VarIntWrite(Len(value)) \o value

\* send_known_packs_response(packs): the count, then the three strings of
\* every pack.
RECURSIVE known_packs_strings(_)
known_packs_strings(packs) ==
    IF packs = <<>> THEN <<>>
    ELSE write_string(Head(packs)[1]) \o write_string(Head(packs)[2])
         \o write_string(Head(packs)[3]) \o known_packs_strings(Tail(packs))

known_packs_response_data(packs) ==
    VarIntWrite(Len(packs)) \o known_packs_strings(packs)

\* _handle_config_known_packs reads the count and the packs (the server
\* writes them in the same layout) and passes the packs it read to
\* send_known_packs_response.
handle_config_known_packs ==
    \E ok \in BOOLEAN, packs \in KnownPackLists :
        /\ Dispatched("handle_config_known_packs",
                      IF ok THEN RecvWire(CONFIG_KNOWN_PACKS, TRUE,
                                          known_packs_response_data(packs))
                      ELSE Recv(CONFIG_KNOWN_PACKS, FALSE))
        /\ handlerEmitted' = <<>>
        /\ IF ok
           THEN SendThen(NoPkt, <<>>,
                         Pkt("recv", "send_known_packs_response", 7,
                             known_packs_response_data(packs)),
                         "tail_drain")
           ELSE /\ firstSent' = NoPkt
                /\ handlerSent' = <<>>
                /\ ackedFinish' = ackedFinish
                /\ outcome' = "raised"
                /\ rpc' = LoopCheck(running)
        /\ UNCHANGED <<protoVars, botVars, tickVars, nspawn, njoin>>
        /\ UNCHANGED <<runs, sideVars>>


\* ------------------------------------------------------- Play handlers
handle_keep_alive ==
    \E ok \in BOOLEAN, w \in LongWires :
        /\ Dispatched("handle_keep_alive",
                      IF ok THEN RecvWire(KEEP_ALIVE, TRUE, w)
                      ELSE Recv(KEEP_ALIVE, FALSE))
        /\ handlerEmitted' = <<>>
        /\ IF ok
           THEN SendThen(NoPkt, <<>>,
                         Pkt("recv", "send_keep_alive", 24,
                             send_keep_alive_data(read_long(w))),
                         "tail_drain")
           ELSE /\ firstSent' = NoPkt
                /\ handlerSent' = <<>>
                /\ ackedFinish' = ackedFinish
                /\ outcome' = "raised"
                /\ rpc' = LoopCheck(running)
        /\ UNCHANGED <<protoVars, running, in_configuration, joined_game,
                       spawn_confirmed, health, food, auto_reconnect, tickVars,
                       nspawn, njoin>>
        /\ UNCHANGED <<runs, sideVars>>

\* Variant: the teleport id written as one byte instead of a VarInt.
send_teleport_confirm_data_byte(teleport_id) == <<teleport_id % 256>>

\* send_teleport_confirm: the payload.
send_teleport_confirm_data(teleport_id) == VarIntWrite(teleport_id)

\* _handle_synchronize_player_position, up to the drain of TeleportConfirm:
\* the body is read, the teleport applied, the confirm written.
handle_synchronize_player_position ==
    \E ok \in BOOLEAN, w \in VarIntWires :
        /\ Dispatched("handle_synchronize_player_position",
                      IF ok THEN RecvWire(SYNCHRONIZE_PLAYER_POSITION, TRUE, w)
                      ELSE Recv(SYNCHRONIZE_PLAYER_POSITION, FALSE))
        /\ handlerEmitted' = <<>>
        /\ IF ok
           THEN SendThen(NoPkt, <<>>,
                         Pkt("recv", "send_teleport_confirm", 0,
                             send_teleport_confirm_data(VarIntRead(w, 0).value)),
                         "sp_drain")
           ELSE /\ firstSent' = NoPkt
                /\ handlerSent' = <<>>
                /\ ackedFinish' = ackedFinish
                /\ outcome' = "raised"
                /\ rpc' = LoopCheck(running)
        /\ UNCHANGED <<protoVars, botVars, tickVars, nspawn, njoin>>
        /\ UNCHANGED <<runs, sideVars>>

\* Variant: a task is created at every SynchronizePlayerPosition.
needs_tick_task_always(t) == TRUE

\* `if not self._position_update_task`: no task was ever recorded.
needs_tick_task(t) == t = "none"

\* asyncio.create_task(_position_update_loop()) unless a task is recorded.
StartedTick == IF needs_tick_task(tick) THEN "created" ELSE tick

\* The position tick tasks that are running.
TickAlive == tick \in {"created", "sleep", "drain"}

\* A task created while the recorded one is running leaves that one running
\* with nothing referring to it.
Orphaned ==
    IF needs_tick_task(tick) /\ TickAlive THEN Bump(orphans) ELSE orphans

\* What the end of _handle_synchronize_player_position leaves alone.
SyncSide == <<codecVars, worldVars, chunkVars, blockVars, lookVars, emitVars,
              probeVars, streamVars, writerVars, hostVars>>

\* ... resumes after the drain: the first time, `spawn` is emitted.
handle_synchronize_player_position_confirmed ==
    /\ rpc = "sp_drain"
    /\ ~connLost
    /\ IF ~spawn_confirmed
       THEN /\ spawn_confirmed' = TRUE
            /\ nspawn' = Bump(nspawn)
            /\ EmitThen(handlerEmitted, "spawn", <<>>, "sp_emit")
            /\ tick' = tick
            /\ orphans' = orphans
       ELSE /\ tick' = StartedTick
            /\ orphans' = Orphaned
            /\ outcome' = "returned"
            /\ rpc' = LoopCheck(running)
            /\ UNCHANGED <<spawn_confirmed, nspawn, handlerEmitted>>
    /\ UNCHANGED <<protoVars, running, in_configuration, joined_game, health, food, auto_reconnect, tickCancel,
                   handler, pkt, sentVars, njoin>>
    /\ UNCHANGED <<runs, SyncSide>>

\* ... resumes after the `spawn` handlers: the tick task is started.
handle_synchronize_player_position_spawned ==
    /\ rpc = "sp_emit"
    /\ tick' = StartedTick
    /\ orphans' = Orphaned
    /\ outcome' = "returned"
    /\ rpc' = LoopCheck(running)
    /\ UNCHANGED <<protoVars, botVars, tickCancel, handler, pkt, sentVars,
                   eventVars>>
    /\ UNCHANGED <<runs, SyncSide>>

\* Variant: dead only below zero.
is_dead_strict(h) == h < 0

\* _handle_update_health: `if self._player.health <= 0`.
is_dead(h) == h <= 0

\* _handle_update_health, up to the await of the `health` handlers.
handle_update_health ==
    \E ok \in BOOLEAN, h \in Healths, f \in Foods :
        /\ Dispatched("handle_update_health",
                      IF ok THEN [Recv(SET_HEALTH, TRUE)
                                    EXCEPT !.health = h, !.food = f]
                      ELSE Recv(SET_HEALTH, FALSE))
        /\ firstSent' = NoPkt
        /\ handlerSent' = <<>>
        /\ ackedFinish' = ackedFinish
        /\ IF ok
           THEN /\ health' = h
                /\ food' = f
                /\ EmitThen(<<>>, "health", <<h, f>>, "uh_emit")
           ELSE /\ handlerEmitted' = <<>>
                /\ outcome' = "raised"
                /\ rpc' = LoopCheck(running)
                /\ UNCHANGED <<health, food>>
        /\ UNCHANGED <<protoVars, running, in_configuration, joined_game,
                       spawn_confirmed, auto_reconnect,
                       tickVars, nspawn, njoin>>
        /\ UNCHANGED <<runs, sideVars>>

\* ... resumes after the `health` handlers: `death` if the health is <= 0.
handle_update_health_emitted ==
    /\ rpc = "uh_emit"
    /\ IF is_dead(health)
       THEN EmitThen(handlerEmitted, "death", <<>>, "tail_emit")
       ELSE /\ outcome' = "returned"
            /\ rpc' = LoopCheck(running)
            /\ UNCHANGED handlerEmitted
    /\ UNCHANGED <<protoVars, botVars, tickVars, handler, pkt, sentVars,
                   nspawn, njoin>>
    /\ UNCHANGED <<runs, sideVars>>

handle_disconnect ==
    \E ok \in BOOLEAN :
        /\ Dispatched("handle_disconnect", Recv(DISCONNECT, ok))
        /\ Quiet
        /\ running' = FALSE
        /\ outcome' = "returned"
        /\ rpc' = LoopCheck(FALSE)
        /\ UNCHANGED <<protoVars, in_configuration, joined_game,
                       spawn_confirmed, health, food,
                       auto_reconnect, tickVars, nspawn, njoin>>
        /\ UNCHANGED <<runs, sideVars>>

\* _handle_login_play: dropped when already joined; else the flag is set,
\* the body read, and `join` emitted.
handle_login_play ==
    \E ok \in BOOLEAN :
        /\ Dispatched("handle_login_play", Recv(LOGIN_PLAY, ok))
        /\ firstSent' = NoPkt
        /\ handlerSent' = <<>>
        /\ ackedFinish' = ackedFinish
        /\ IF joined_game
           THEN /\ handlerEmitted' = <<>>
                /\ outcome' = "returned"
                /\ rpc' = LoopCheck(running)
                /\ UNCHANGED <<joined_game, in_configuration, njoin>>
           ELSE /\ joined_game' = TRUE
                /\ IF ok
                   THEN /\ in_configuration' = FALSE
                        /\ njoin' = Bump(njoin)
                        /\ EmitThen(<<>>, "join", <<>>, "tail_emit")
                   ELSE /\ handlerEmitted' = <<>>
                        /\ outcome' = "raised"
                        /\ rpc' = LoopCheck(running)
                        /\ UNCHANGED <<in_configuration, njoin>>
        /\ UNCHANGED <<protoVars, running, spawn_confirmed,
                       health, food, auto_reconnect, tickVars, nspawn>>
        /\ UNCHANGED <<runs, sideVars>>

\* _handle_start_configuration, up to the drain of the packet 0x0C.
handle_start_configuration ==
    \E ok \in BOOLEAN :
        /\ Dispatched("handle_start_configuration",
                      Recv(START_CONFIGURATION, ok))
        /\ handlerEmitted' = <<>>
        /\ SendThen(NoPkt, <<>>, Pkt("recv", "send_packet", 12, <<>>),
                    "sc_drain")
        /\ UNCHANGED <<protoVars, botVars, tickVars, nspawn, njoin>>
        /\ UNCHANGED <<runs, sideVars>>

\* Variant: StartConfiguration restarts the login.
start_configuration_state_login == LOGIN

\* _handle_start_configuration: the state it sets.
start_configuration_state == CONFIGURATION

\* Variant: the handler ends after resetting state and flags, without
\* writing client-information.
handle_start_configuration_no_resend ==
    /\ rpc = "sc_drain"
    /\ ~connLost
    /\ state' = start_configuration_state
    /\ in_configuration' = TRUE
    /\ joined_game' = FALSE
    /\ spawn_confirmed' = FALSE
    /\ outcome' = "returned"
    /\ rpc' = LoopCheck(running)
    /\ UNCHANGED <<threshold, connected, writerOpen, connLost, running, health,
                   food, auto_reconnect, tickVars, handler, pkt, sentVars,
                   eventVars>>
    /\ UNCHANGED <<runs, sideVars>>

\* ... resumes after the drain: state and flags are reset and
\* client-information is written again.
handle_start_configuration_acknowledged ==
    /\ rpc = "sc_drain"
    /\ ~connLost
    /\ state' = start_configuration_state
    /\ in_configuration' = TRUE
    /\ joined_game' = FALSE
    /\ spawn_confirmed' = FALSE
    /\ SendThen(firstSent, handlerSent,
                [Pkt("recv", "send_configuration_client_information", 0, <<>>)
                   EXCEPT !.st = start_configuration_state],
                "tail_drain")
    /\ UNCHANGED <<threshold, connected, writerOpen, connLost, running, health, food, auto_reconnect, tickVars,
                   handler, pkt, eventVars>>
    /\ UNCHANGED <<runs, sideVars>>

handle_ping ==
    \E ok \in BOOLEAN :
        /\ Dispatched("handle_ping", Recv(PING, ok))
        /\ handlerEmitted' = <<>>
        /\ IF ok
           THEN SendThen(NoPkt, <<>>, Pkt("recv", "send_packet", 40, <<>>),
                         "tail_drain")
           ELSE /\ firstSent' = NoPkt
                /\ handlerSent' = <<>>
                /\ ackedFinish' = ackedFinish
                /\ outcome' = "raised"
                /\ rpc' = LoopCheck(running)
        /\ UNCHANGED <<protoVars, botVars, tickVars, nspawn, njoin>>
        /\ UNCHANGED <<runs, sideVars>>

\* ------------------------------------------- handlers: last suspension
\* The drain that ends a handler returned.
handler_drained ==
    /\ rpc = "tail_drain"
    /\ ~connLost
    /\ outcome' = "returned"
    /\ rpc' = LoopCheck(running)
    /\ UNCHANGED <<protoVars, botVars, tickVars, handler, pkt, sentVars,
                   eventVars>>
    /\ UNCHANGED <<runs, sideVars>>

\* The event handlers awaited last by a handler returned.
handler_emitted ==
    /\ rpc = "tail_emit"
    /\ outcome' = "returned"
    /\ rpc' = LoopCheck(running)
    /\ UNCHANGED <<protoVars, botVars, tickVars, handler, pkt, sentVars,
                   eventVars>>
    /\ UNCHANGED <<runs, sideVars>>

\* A handler's drain raised (the connection is lost): the rest of the
\* handler is skipped, _handle_packet logs the exception.
DrainPoints == {"la_drain", "fa_drain", "sp_drain", "sc_drain", "tail_drain"}

\* Variant: the exception leaves _handle_packet and ends run()'s loop.
handler_drain_raised_fatal ==
    /\ rpc \in DrainPoints
    /\ connLost
    /\ outcome' = "raised"
    /\ rpc' = "finally"
    /\ UNCHANGED <<protoVars, botVars, tickVars, handler, pkt, sentVars,
                   eventVars>>
    /\ UNCHANGED <<runs, sideVars>>

handler_drain_raised ==
    /\ rpc \in DrainPoints
    /\ connLost
    /\ outcome' = "raised"
    /\ rpc' = LoopCheck(running)
    /\ UNCHANGED <<protoVars, botVars, tickVars, handler, pkt, sentVars,
                   eventVars>>
    /\ UNCHANGED <<runs, sideVars>>


\* ------------------------------------------- run(): finally, disconnect()
\* disconnect(): the running flag is cleared and the tick task cancelled;
\* the call awaits the task.
disconnect_begin ==
    /\ rpc = "finally"
    /\ running' = FALSE
    /\ tickCancel' = (tick \in {"created", "sleep", "drain"})
    /\ rpc' = "disc_task"
    /\ Forgotten
    /\ UNCHANGED <<protoVars, in_configuration, joined_game, spawn_confirmed, health, food, auto_reconnect, tick,
                   ackedFinish, nspawn, njoin>>
    /\ UNCHANGED <<runs, sideVars>>

\* Variant: the writer is closed without awaiting the cancelled task.
disconnect_close_early ==
    /\ rpc = "disc_task"
    /\ connected' = FALSE
    /\ writerOpen' = FALSE
    /\ rpc' = "disc_closed"
    /\ UNCHANGED <<state, threshold, connLost, botVars, tickVars, handler, pkt,
                   outcome, sentVars, eventVars>>
    /\ UNCHANGED <<runs, sideVars>>

\* ... the task is torn down (or there is none): protocol.disconnect()
\* clears _connected and closes the writer.
disconnect_close ==
    /\ rpc = "disc_task"
    /\ tick \in {"none", "done"}
    /\ connected' = FALSE
    /\ writerOpen' = FALSE
    /\ rpc' = "disc_closed"
    /\ UNCHANGED <<state, threshold, connLost, botVars, tickVars, handler, pkt,
                   outcome, sentVars, eventVars>>
    /\ UNCHANGED <<runs, sideVars>>

\* ... `disconnect` is emitted; run() then sleeps reconnect_delay when
\* auto_reconnect is set, and returns otherwise.
disconnect_emit ==
    /\ rpc = "disc_closed"
    /\ rpc' = (IF auto_reconnect THEN "reconnect_sleep" ELSE "returned")
    /\ UNCHANGED <<protoVars, botVars, tickVars, handler, pkt, outcome,
                   sentVars, eventVars>>
    /\ runs' = (IF auto_reconnect THEN runs ELSE 0)
    /\ ndisc' = Bump(ndisc)
    /\ UNCHANGED SessionSide

\* The reconnect delay elapsed: run() is entered again.
run_again ==
    /\ rpc = "reconnect_sleep"
    /\ rpc' = "start"
    /\ UNCHANGED <<protoVars, botVars, tickVars, handler, pkt, outcome,
                   sentVars, eventVars>>
    /\ UNCHANGED <<runs, sideVars>>

\* ------------------------------------------------- the position tick task
\* `while self._running`: the task sleeps for the next tick or ends.
TickLoop == IF running THEN "sleep" ELSE "done"

\* The tick after its sleep: a look target that is set becomes the player's
\* yaw or pitch and is reset to None.
ApplyLook ==
    /\ yaw' = (IF target_yaw # <<>> THEN target_yaw[1] ELSE yaw)
    /\ pitch' = (IF target_pitch # <<>> THEN target_pitch[1] ELSE pitch)
    /\ target_yaw' = <<>>
    /\ target_pitch' = <<>>

\* The created task runs for the first time.
tick_start ==
    /\ tick = "created"
    /\ ~tickCancel
    /\ tick' = TickLoop
    /\ UNCHANGED <<protoVars, botVars, tickCancel, loopVars, sentVars,
                   eventVars>>
    /\ UNCHANGED <<runs, sideVars>>

\* One tick: in Play, PlayerPositionAndRotation is written and drained.
\* Outside Play, or without a writer (send_packet raises, the loop logs it),
\* nothing is written.
tick_step ==
    /\ tick = "sleep"
    /\ ~tickCancel
    /\ IF state = PLAY /\ writerOpen
       THEN /\ WrittenAside(Pkt("tick", "send_player_position_and_rotation",
                             29, <<>>))
            /\ tick' = "drain"
       ELSE /\ tick' = TickLoop
            /\ UNCHANGED <<firstSent, ackedFinish>>
    /\ ApplyLook
    /\ UNCHANGED <<protoVars, botVars, tickCancel, loopVars, handlerSent,
                   eventVars>>
    /\ UNCHANGED <<runs, codecVars, worldVars, chunkVars, blockVars, emitVars,
                   probeVars, streamVars,
                   moreVars>>

\* The tick's drain returned or raised; either way the loop goes on.
tick_drained ==
    /\ tick = "drain"
    /\ ~tickCancel
    /\ tick' = TickLoop
    /\ UNCHANGED <<protoVars, botVars, tickCancel, loopVars, sentVars,
                   eventVars>>
    /\ UNCHANGED <<runs, sideVars>>

\* CancelledError is delivered at the task's suspension point: it ends.
tick_cancelled ==
    /\ tickCancel
    /\ tick \in {"created", "sleep", "drain"}
    /\ tick' = "done"
    /\ tickCancel' = FALSE
    /\ UNCHANGED <<protoVars, botVars, loopVars, sentVars, eventVars>>
    /\ UNCHANGED <<runs, sideVars>>

\* ------------------------------------------------------------ the host
\* Bot API calls that write one Play packet: jump (Player Position).
ApiOps == {"send_player_position"}

ApiPacketId(op) ==
    CASE op = "send_player_position" -> 28

api_call ==
    \E op \in ApiOps :
        /\ writerOpen
        /\ WrittenAside(Pkt("api", op, ApiPacketId(op), <<>>))
        /\ UNCHANGED <<protoVars, botVars, tickVars, loopVars, handlerSent,
                       eventVars>>
        /\ UNCHANGED <<runs, sideVars>>

\* ------------------------------------------------------ the environment
\* The peer closes or resets the connection.
connection_lost ==
    /\ writerOpen
    /\ ~connLost
    /\ connLost' = TRUE
    /\ UNCHANGED <<state, threshold, connected, writerOpen, botVars, tickVars,
                   loopVars, sentVars, eventVars>>
    /\ UNCHANGED <<runs, sideVars>>

\* ---------------------------------------------------------------- Next
Next ==
    \/ run_connect
    \/ connect_opened
    \/ connect_refused
    \/ connect_handshake_sent
    \/ connect_done
    \/ connect_failed
    \/ connect_login_start_raised
    \/ recv_timeout
    \/ recv_closed
    \/ handle_unregistered
    \/ handle_login_disconnect
    \/ handle_encryption_request
    \/ handle_login_success
    \/ handle_login_success_acknowledged
    \/ handle_set_compression
    \/ handle_read_only
    \/ handle_config_disconnect
    \/ handle_config_finish
    \/ handle_config_finish_acknowledged
    \/ handle_config_keep_alive
    \/ handle_config_resource_pack_push
    \/ handle_config_known_packs
    \/ handle_keep_alive
    \/ handle_synchronize_player_position
    \/ handle_synchronize_player_position_confirmed
    \/ handle_synchronize_player_position_spawned
    \/ handle_update_health
    \/ handle_update_health_emitted
    \/ handle_disconnect
    \/ handle_login_play
    \/ handle_start_configuration
    \/ handle_start_configuration_acknowledged
    \/ handle_ping
    \/ handler_drained
    \/ handler_emitted
    \/ handler_drain_raised
    \/ disconnect_begin
    \/ disconnect_close
    \/ disconnect_emit
    \/ run_again
    \/ tick_start
    \/ tick_step
    \/ tick_drained
    \/ tick_cancelled
    \/ api_call
    \/ connection_lost

Spec == Init /\ [][Next]_vars


\* ======================================================= the wire format
\* send_packet's framing and receive_packet's loop, byte by byte, for a
\* session whose handshake is done.

\* ---------------------------------------------------------------- bounds
\* The reader delivers further bytes while at most MaxPending bytes are
\* waiting in the receive buffer.
MaxPending == 5

\* ------------------------------------------------------------------ zlib
\* zlib.compress / zlib.decompress are library calls.  They are held to
\* the zlib format (RFC 1950/1951): the stream written here is the
\* two-byte header, one final stored block (LEN, NLEN, the bytes) and the
\* Adler-32 of the bytes; Inflate accepts exactly such streams and fails on
\* anything else, as zlib.decompress raises zlib.error.
\* Adler-32: a = 1 + the sum of the bytes, b = the sum of the running
\* values of a, both modulo 65521; b is n + the sum of (n - i + 1) * data[i].
\* The sums are taken by halves.
RECURSIVE AdlerSum(_, _, _, _)
AdlerSum(data, lo, hi, weighted) ==
    IF lo > hi THEN 0
    ELSE IF lo = hi
         THEN (IF weighted THEN Len(data) - lo + 1 ELSE 1) * data[lo]
         ELSE LET mid == (lo + hi) \div 2
              IN  AdlerSum(data, lo, mid, weighted)
                  + AdlerSum(data, mid + 1, hi, weighted)

Adler32(data) ==
    LET a == (1 + AdlerSum(data, 1, Len(data), FALSE)) % 65521
        b == (Len(data) + AdlerSum(data, 1, Len(data), TRUE)) % 65521
    IN  <<b \div 256, b % 256, a \div 256, a % 256>>

Compress(data) ==
    LET n == Len(data)
    IN  <<120, 1, 1, n % 256, n \div 256, 255 - (n % 256), 255 - (n \div 256)>>
        \o data \o Adler32(data)

Inflate(body) ==
    IF Len(body) < 11 THEN [ok |-> FALSE, data |-> <<>>]
    ELSE LET n == body[4] + 256 * body[5]
             data == SubSeq(body, 8, 7 + n)
         IN  IF /\ SubSeq(body, 1, 3) = <<120, 1, 1>>
                /\ body[6] = 255 - body[4]
                /\ body[7] = 255 - body[5]
                /\ Len(body) = 11 + n
                /\ SubSeq(body, 8 + n, 11 + n) = Adler32(data)
             THEN [ok |-> TRUE, data |-> data]
             ELSE [ok |-> FALSE, data |-> <<>>]

\* ----------------------------------------------------------- send_packet
\* Variant: only payloads longer than the threshold are compressed.
compress_needed_above(len, T) == len > T

\* send_packet: `len(packet_data) >= self._compression_threshold`
compress_needed(len, T) == len >= T

\* send_packet: the frame written for (packet_id, data) under threshold T.
\* No encryption context is ever installed, so the frame goes out as is.
send_packet_frame(packet_id, data, T) ==
    LET packet_data == VarIntWrite(packet_id) \o data
    IN  IF T >= 0
        THEN LET packet_with_length ==
                     IF compress_needed(Len(packet_data), T)
                     THEN VarIntWrite(Len(packet_data)) \o Compress(packet_data)
                     ELSE VarIntWrite(0) \o packet_data
             IN  VarIntWrite(Len(packet_with_length)) \o packet_with_length
        ELSE VarIntWrite(Len(packet_data)) \o packet_data

\* -------------------------------------------------------- receive_packet
\* data[start : stop] of a bytes object: a negative index counts from the
\* end, and both are clamped to the object.
SliceIndex(data, i) ==
    IF i < 0 THEN (IF Len(data) + i < 0 THEN 0 ELSE Len(data) + i)
    ELSE IF i > Len(data) THEN Len(data) ELSE i

Slice(data, start, stop) ==
    LET a == SliceIndex(data, start)
        b == SliceIndex(data, stop)
    IN  IF b <= a THEN <<>> ELSE SubSeq(data, a + 1, b)

\* Variant: the frame is cut off only once a byte follows it.
receive_frame_late(buf) ==
    LET r == VarIntRead(buf, 0)
    IN  IF r.ok /\ Len(buf) - r.offset > r.value
        THEN [got |-> TRUE,
              packet_data |-> Slice(buf, r.offset, r.offset + r.value),
              rest |-> Slice(buf, r.offset + r.value, Len(buf))]
        ELSE [got |-> FALSE, packet_data |-> <<>>, rest |-> buf]

\* One pass of the `while True` body up to the read: the VarInt at the
\* head of the buffer and, when the whole frame is there, the frame cut
\* off the buffer.  ValueError (the VarInt is incomplete, or too big) is
\* passed over.
receive_frame(buf) ==
    LET r == VarIntRead(buf, 0)
    IN  IF r.ok /\ Len(buf) - r.offset >= r.value
        THEN [got |-> TRUE,
              packet_data |-> Slice(buf, r.offset, r.offset + r.value),
              rest |-> Slice(buf, r.offset + r.value, Len(buf))]
        ELSE [got |-> FALSE, packet_data |-> <<>>, rest |-> buf]

\* receive_packet after the loop: data_length and inflation in compressed
\* mode, then the packet id.  A failing read_varint or decompress raises
\* out of receive_packet.
Raised == [NoRx EXCEPT !.kind = "raised"]

receive_decode(packet_data, T) ==
    LET d == VarIntRead(packet_data, 0)
        rest == SubSeq(packet_data, d.offset + 1, Len(packet_data))
        inf == Inflate(rest)
        failed == T >= 0 /\ (~d.ok \/ (d.value > 0 /\ ~inf.ok))
        pd == IF T < 0 THEN packet_data
              ELSE IF d.value > 0 THEN inf.data ELSE rest
        id == VarIntRead(pd, 0)
    IN  IF failed \/ ~id.ok THEN Raised
        ELSE [kind |-> "packet", id |-> id.value,
              body |-> SubSeq(pd, id.offset + 1, Len(pd)),
              declared |-> IF T >= 0 THEN d.value ELSE -1,
              size |-> Len(pd)]

\* ---------------------------------------------------------------- inputs
\* Thresholds, packet ids and payload sizes of the packets written.
WireThresholds == { -1, 0, 3, 128 }
TxIds == { 0, 29, 200 }
TxLens == { 0, 1, 2, 126, 127, 128 }

\* What one reader.read() returns: whole frames and pieces of frames.
\*   <<2, 39, 7>>, <<2>>, <<39, 7>>   a plain frame, and its two pieces
\*   <<3, 0, 39, 7>>                  a frame with data_length 0
\*   <<14, 2>> \o zlib(39, 7)         a compressed frame, data_length 2
\*   <<14, 5>> \o zlib(39, 7)         the same with data_length 5
\*   <<3, 2, 1, 1>>                   data_length 2, not a zlib stream
\*   <<0>>                            an empty frame
\*   <<128, 128, 128, 128, 128>>      five continuation bytes
Chunks ==
    { <<2, 39, 7>>, <<2>>, <<39, 7>>, <<3, 0, 39, 7>>,
      <<14, 2>> \o Compress(<<39, 7>>), <<14, 5>> \o Compress(<<39, 7>>),
      <<3, 2, 1, 1>>, <<0>>, <<128, 128, 128, 128, 128>> }

\* ------------------------------------------------------------------ Init
\* A session past its handshake: in Login, where the last packet had no
\* handler, or in Play after a receive timeout; the server has set any of
\* the thresholds.
WireInit ==
    /\ state \in {LOGIN, PLAY}
    /\ threshold \in WireThresholds
    /\ connected = TRUE
    /\ writerOpen = TRUE
    /\ connLost = FALSE
    /\ running = TRUE
    /\ in_configuration = (state = PLAY)
    /\ joined_game = FALSE
    /\ spawn_confirmed = FALSE
    /\ health = 20
    /\ food = 20
    /\ auto_reconnect = FALSE
    /\ tick = "none"
    /\ tickCancel = FALSE
    /\ rpc = "recv"
    /\ handler = "none"
    /\ pkt = (IF state = PLAY THEN NoRecv ELSE Recv(KEEP_ALIVE, TRUE))
    /\ outcome = (IF state = PLAY THEN "idle" ELSE "dropped")
    /\ firstSent = NoPkt
    /\ handlerSent = <<>>
    /\ handlerEmitted = <<>>
    /\ nspawn = 0
    /\ njoin = 0
    /\ ackedFinish = (state = PLAY)
    /\ runs = 1
    /\ receive_buffer = <<>>
    /\ rxpc = "call"
    /\ rx = NoRx
    /\ tx = NoTx
    /\ entities = <<>>
    /\ removed = {}
    /\ loaded_chunks = {}
    /\ block_changes = <<>>
    /\ yaw = 0
    /\ pitch = 0
    /\ target_yaw = <<>>
    /\ target_pitch = <<>>
    /\ event_handlers = <<>>
    /\ emit_pos = 0
    /\ emit_awaiting = FALSE
    /\ invoked = <<>>
    /\ emit_raised = FALSE
    /\ probe = NoProbe
    /\ stream_frames = <<>>
    /\ stream_left = <<>>
    /\ handed = <<>>
    /\ sock = <<>>
    /\ cipher_pos = 0
    /\ frames_out = <<>>
    /\ wpc = [t \in WriterTasks |-> Idle]
    /\ encryption = FALSE
    /\ hpc = "none"
    /\ ndisc = 0
    /\ host_stopped = FALSE
    /\ orphans = 0

sessionVars == <<protoVars, botVars, tickVars, loopVars, sentVars, eventVars,
                 runs>>

\* --------------------------------------------------------------- actions
\* Any task writes a packet: send_packet up to writer.write().
wire_send_packet ==
    \E packet_id \in TxIds, n \in TxLens :
        LET data == [i \in 1 .. n |-> 7]
        IN  /\ writerOpen
            /\ tx' = [id |-> packet_id, data |-> data,
                      frame |-> send_packet_frame(packet_id, data, threshold)]
            /\ UNCHANGED <<sessionVars, receive_buffer, rxpc, rx, worldVars, restVars>>

\* receive_packet with buffer `buf`, from the top of its loop to its next
\* suspension or its end: a packet is returned to run() (which dispatches
\* it and calls again), or the call raises (run()'s outer `except
\* Exception` ends the loop), or it awaits the reader.
ReceiveFrom(buf) ==
    LET f == receive_frame(buf)
        p == receive_decode(f.packet_data, threshold)
    IN  /\ receive_buffer' = f.rest
        /\ IF f.got
           THEN /\ rx' = p
                /\ rxpc' = (IF p.kind = "packet" THEN "call" ELSE "ended")
           ELSE /\ rx' = rx
                /\ rxpc' = "read"

\* run() calls receive_packet.
wire_receive_packet ==
    /\ rxpc = "call"
    /\ ReceiveFrom(receive_buffer)
    /\ UNCHANGED <<sessionVars, tx, worldVars, restVars>>

\* reader.read(4096) returned bytes: they are appended and the loop goes
\* round.
wire_reader_read ==
    \E chunk \in Chunks :
        /\ rxpc = "read"
        /\ Len(receive_buffer) <= MaxPending
        /\ ReceiveFrom(receive_buffer \o chunk)
        /\ UNCHANGED <<sessionVars, tx, worldVars, restVars>>

\* reader.read returned b"": ConnectionError, the loop breaks.
wire_reader_closed ==
    /\ rxpc = "read"
    /\ rx' = [NoRx EXCEPT !.kind = "closed"]
    /\ rxpc' = "ended"
    /\ UNCHANGED <<sessionVars, receive_buffer, tx, worldVars, restVars>>

\* wait_for timed out and cancelled the read: run() calls receive_packet
\* again in Play and breaks otherwise.  The buffer stays.
wire_receive_timeout ==
    /\ rxpc = "read"
    /\ rx' = [NoRx EXCEPT !.kind = "timeout"]
    /\ rxpc' = (IF timeout_continues(state) THEN "call" ELSE "ended")
    /\ UNCHANGED <<sessionVars, receive_buffer, tx, worldVars, restVars>>

\* The sending side: packets written under each threshold.
SendNext == wire_send_packet

SendSpec == WireInit /\ [][SendNext]_vars

\* The receiving side: the loop of run() around receive_packet.
ReceiveNext ==
    \/ wire_receive_packet
    \/ wire_reader_read
    \/ wire_reader_closed
    \/ wire_receive_timeout

ReceiveSpec == WireInit /\ [][ReceiveNext]_vars

\* ============================================================ the world
\* The entity handlers of Play, for a session that is in Play.

\* ---------------------------------------------------------------- inputs
EntityIds == { 1, 2, 3 }
EntityTypes == { 10, 20 }

\* The entity ids a RemoveEntities packet lists, in order.
RemoveLists ==
    { <<>> } \cup { <<a>> : a \in EntityIds }
             \cup { <<a, b>> : a \in EntityIds, b \in EntityIds }

\* A session in Play, its last receive timed out, no entity known yet.
WorldInit ==
    /\ WireInit
    /\ state = PLAY
    /\ threshold = -1

\* --------------------------------------------------------------- actions
\* _handle_spawn_entity: the entry of entity_id is set, replacing any entry
\* the id has; a body that ends before the coordinates raises first.
handle_spawn_entity ==
    \E ok \in BOOLEAN, entity_id \in EntityIds, entity_type \in EntityTypes :
        /\ Dispatched("handle_spawn_entity", Recv(SPAWN_ENTITY, ok))
        /\ Quiet
        /\ entities' =
              (IF ok
               THEN [i \in DOMAIN entities \cup {entity_id} |->
                        IF i = entity_id THEN entity_type ELSE entities[i]]
               ELSE entities)
        /\ outcome' = (IF ok THEN "returned" ELSE "raised")
        /\ rpc' = LoopCheck(running)
        /\ UNCHANGED <<protoVars, botVars, tickVars, nspawn, njoin, runs,
                       codecVars, removed, restVars>>

\* _handle_remove_entities: the listed ids are popped one by one; when the
\* body holds fewer ids than its count says (ok is false), the read after
\* the last id raises, the ids before it having been popped.
handle_remove_entities ==
    \E ok \in BOOLEAN, ids \in RemoveLists :
        LET listed == { ids[i] : i \in DOMAIN ids }
        IN  /\ Dispatched("handle_remove_entities", Recv(REMOVE_ENTITIES, ok))
            /\ Quiet
            /\ entities' = [i \in DOMAIN entities \ listed |-> entities[i]]
            /\ removed' = removed \cup (listed \cap DOMAIN entities)
            /\ outcome' = (IF ok THEN "returned" ELSE "raised")
            /\ rpc' = LoopCheck(running)
            /\ UNCHANGED <<protoVars, botVars, tickVars, nspawn, njoin, runs,
                           codecVars, restVars>>

WorldNext ==
    \/ handle_spawn_entity
    \/ handle_remove_entities

WorldSpec == WorldInit /\ [][WorldNext]_vars

\* ================================================================ chunks
\* The chunk handlers, in sessions that connect, reach Play, end and, with
\* auto_reconnect, start again.  MinecraftBot.__init__ builds the one
\* WorldState; connect() and disconnect() leave it alone.
ChunkCoords == { <<0, 0>>, <<0, 1>> }

\* _handle_chunk_data: chunk_x and chunk_z are read, the rest of the body
\* is parsed under try/except-pass, and the chunk is stored under its key.
handle_chunk_data ==
    \E ok \in BOOLEAN, c \in ChunkCoords :
        /\ Dispatched("handle_chunk_data",
                      Recv(CHUNK_DATA_AND_UPDATE_LIGHT, ok))
        /\ Quiet
        /\ loaded_chunks' = (IF ok THEN loaded_chunks \cup {c}
                             ELSE loaded_chunks)
        /\ outcome' = (IF ok THEN "returned" ELSE "raised")
        /\ rpc' = LoopCheck(running)
        /\ UNCHANGED <<protoVars, botVars, tickVars, nspawn, njoin, runs,
                       codecVars, worldVars, blockVars, lookVars, emitVars,
                       probeVars, streamVars,
                       moreVars>>

\* _handle_unload_chunk: chunk_z then chunk_x are read and the key
\* (chunk_x, chunk_z) is popped, present or not.
handle_unload_chunk ==
    \E ok \in BOOLEAN, c \in ChunkCoords :
        /\ Dispatched("handle_unload_chunk", Recv(UNLOAD_CHUNK, ok))
        /\ Quiet
        /\ loaded_chunks' = (IF ok THEN loaded_chunks \ {c}
                             ELSE loaded_chunks)
        /\ outcome' = (IF ok THEN "returned" ELSE "raised")
        /\ rpc' = LoopCheck(running)
        /\ UNCHANGED <<protoVars, botVars, tickVars, nspawn, njoin, runs,
                       codecVars, worldVars, blockVars, lookVars, emitVars,
                       probeVars, streamVars,
                       moreVars>>

\* A server that logs the bot in, finishes Configuration, sends and unloads
\* chunks and goes silent or away.
ChunkNext ==
    \/ run_connect
    \/ connect_opened
    \/ connect_handshake_sent
    \/ connect_done
    \/ handle_login_success
    \/ handle_login_success_acknowledged
    \/ handle_config_finish
    \/ handle_config_finish_acknowledged
    \/ handler_drained
    \/ handle_chunk_data
    \/ handle_unload_chunk
    \/ recv_timeout
    \/ recv_closed
    \/ connection_lost
    \/ disconnect_begin
    \/ disconnect_close
    \/ disconnect_emit
    \/ run_again

ChunkSpec == Init /\ [][ChunkNext]_vars

\* ================================================================== look
\* The look calls of the bot API and the tick that applies them, in a
\* session in Play whose tick task sleeps.  Angles are whole degrees.
LookYaws == { -90, 90, 360, 720 }
LookPitches == { -100, 0, 100 }
DeltaYaws == { -90, 450 }
DeltaPitches == { -60, 200 }

\* max(-90, min(90, pitch))
clamp_pitch(p) == IF p > 90 THEN 90 ELSE IF p < -90 THEN -90 ELSE p

\* look(yaw, pitch): the yaw is stored as given, the pitch clamped.
look ==
    \E y \in LookYaws, p \in LookPitches :
        /\ target_yaw' = <<y>>
        /\ target_pitch' = <<clamp_pitch(p)>>
        /\ UNCHANGED <<sessionVars, codecVars, worldVars, chunkVars,
                       blockVars, yaw, pitch, emitVars, probeVars,
                       streamVars,
                       moreVars>>

\* look_relative(yaw_delta, pitch_delta): the new yaw is taken modulo 360
\* (Python's %: the sign of the divisor), the new pitch clamped, and both
\* handed to look().
look_relative ==
    \E dy \in DeltaYaws, dp \in DeltaPitches :
        LET new_yaw == (yaw + dy) % 360
            new_pitch == clamp_pitch(pitch + dp)
        IN  /\ target_yaw' = <<new_yaw>>
            /\ target_pitch' = <<clamp_pitch(new_pitch)>>
            /\ UNCHANGED <<sessionVars, codecVars, worldVars, chunkVars,
                           blockVars, yaw, pitch, emitVars, probeVars,
                           streamVars,
                           moreVars>>

\* A session in Play after its first SynchronizePlayerPosition (yaw 0,
\* pitch 0, absolute), its last receive timed out, the tick task asleep.
LookInit ==
    /\ state = PLAY
    /\ threshold = -1
    /\ connected = TRUE
    /\ writerOpen = TRUE
    /\ connLost = FALSE
    /\ running = TRUE
    /\ in_configuration = TRUE
    /\ joined_game = FALSE
    /\ spawn_confirmed = TRUE
    /\ health = 20
    /\ food = 20
    /\ auto_reconnect = FALSE
    /\ tick = "sleep"
    /\ tickCancel = FALSE
    /\ rpc = "recv"
    /\ handler = "none"
    /\ pkt = NoRecv
    /\ outcome = "idle"
    /\ firstSent = NoPkt
    /\ handlerSent = <<>>
    /\ handlerEmitted = <<>>
    /\ nspawn = 1
    /\ njoin = 0
    /\ ackedFinish = TRUE
    /\ runs = 1
    /\ receive_buffer = <<>>
    /\ rxpc = "call"
    /\ rx = NoRx
    /\ tx = NoTx
    /\ entities = <<>>
    /\ removed = {}
    /\ loaded_chunks = {}
    /\ block_changes = <<>>
    /\ yaw = 0
    /\ pitch = 0
    /\ target_yaw = <<>>
    /\ target_pitch = <<>>
    /\ event_handlers = <<>>
    /\ emit_pos = 0
    /\ emit_awaiting = FALSE
    /\ invoked = <<>>
    /\ emit_raised = FALSE
    /\ probe = NoProbe
    /\ stream_frames = <<>>
    /\ stream_left = <<>>
    /\ handed = <<>>
    /\ sock = <<>>
    /\ cipher_pos = 0
    /\ frames_out = <<>>
    /\ wpc = [t \in WriterTasks |-> Idle]
    /\ encryption = FALSE
    /\ hpc = "none"
    /\ ndisc = 0
    /\ host_stopped = FALSE
    /\ orphans = 0

LookNext ==
    \/ look
    \/ look_relative
    \/ tick_step
    \/ tick_drained

LookSpec == LookInit /\ [][LookNext]_vars

\* ======================================================= the block log
\* _handle_block_update in a session in Play.  A record is followed by its
\* arrival number: the n-th BlockUpdate the handler appended.
MaxUpdates == 1600

BlockLogLimit == 1000
BlockLogKeep == 500

log_exceeds_at(len) == len >= BlockLogLimit

\* `if len(self._world.block_changes) > 1000`
log_exceeds(len) == len > BlockLogLimit

\* The arrival number of the next record.
NextArrival ==
    IF block_changes = <<>> THEN 1
    ELSE block_changes[Len(block_changes)] + 1

\* _handle_block_update: the position and the block id are read (a body that
\* ends early raises there), the record is appended, and a list longer than
\* the limit is replaced by its slice [-500:].
handle_block_update ==
    \E ok \in BOOLEAN :
        LET appended == Append(block_changes, NextArrival)
        IN  /\ NextArrival <= MaxUpdates
            /\ Dispatched("handle_block_update", Recv(BLOCK_UPDATE, ok))
            /\ Quiet
            /\ block_changes' =
                  (IF ~ok THEN block_changes
                   ELSE IF log_exceeds(Len(appended))
                        THEN Slice(appended, -BlockLogKeep, Len(appended))
                        ELSE appended)
            /\ outcome' = (IF ok THEN "returned" ELSE "raised")
            /\ rpc' = LoopCheck(running)
            /\ UNCHANGED <<protoVars, botVars, tickVars, nspawn, njoin, runs,
                           codecVars, worldVars, chunkVars, lookVars,
                           emitVars, probeVars, streamVars,
                           moreVars>>

BlockNext == handle_block_update

BlockSpec == WorldInit /\ [][BlockNext]_vars

\* ============================================================ the codec
\* VarInt and PacketBuffer.read_string applied to one input at a time.
Pows == { 1, 128, 16384, 2097152, 268435456 }

\* Signed 32-bit integers at and around the group boundaries, both ends of
\* the range, and a port number.
VarIntValues ==
    { 0, 25565, -25565, 2147483647, -2147483647, -2147483647 - 1 }
        \cup { p + d : p \in Pows, d \in {-1, 0, 1} }
        \cup { d - p : p \in Pows, d \in {-1, 0, 1} }

\* What follows the VarInt in the buffer.
Trailing == { <<>>, <<0>>, <<255, 1>> }

\* Byte sequences for VarInt.read: up to five bytes with the continuation
\* bit, then no byte or a last byte.
Continued ==
    { [i \in 1 .. k |-> c] : k \in 0 .. 5, c \in {128, 255} }

LastBytes == { <<>> } \cup { <<b>> : b \in {0, 1, 7, 8, 15, 16, 23, 24, 127} }

VarIntInputs == { c \o l : c \in Continued, l \in LastBytes }

\* Buffers for read_string: a length prefix, then 0 to 3 bytes ("hi!"), or
\* a byte no UTF-8 text holds.
StringInputs ==
    { VarIntWrite(k) \o body :
        k \in {0, 1, 2, 3, 5, 200},
        body \in { <<>>, <<104>>, <<104, 105>>, <<104, 105, 33>>,
                   <<255, 105>> } }
        \cup { <<>>, <<128>> }

\* bytes.decode("utf-8") on the bytes of the inputs: ASCII bytes are their
\* own code points, 0xFF is in no UTF-8 text (UnicodeDecodeError).
decode_utf8(bytes) ==
    IF \E i \in DOMAIN bytes : bytes[i] >= 128
    THEN [ok |-> FALSE, string |-> <<>>]
    ELSE [ok |-> TRUE, string |-> bytes]

\* PacketBuffer.read_string: read_varint, then the slice
\* data[offset : offset + length] decoded, then offset += length.
read_string(data, offset) ==
    LET length == VarIntRead(data, offset)
        text == decode_utf8(Slice(data, length.offset,
                                  length.offset + length.value))
    IN  IF ~length.ok THEN [ok |-> FALSE, string |-> <<>>, offset |-> offset]
        ELSE IF ~text.ok
             THEN [ok |-> FALSE, string |-> <<>>, offset |-> length.offset]
             ELSE [ok |-> TRUE, string |-> text.string,
                   offset |-> length.offset + length.value]

\* VarInt.read(VarInt.write(n) + rest)
varint_write ==
    \E n \in VarIntValues, rest \in Trailing :
        /\ probe' = [NoProbe EXCEPT !.op = "write", !.n = n,
                                    !.written = VarIntWrite(n),
                                    !.data = VarIntWrite(n) \o rest,
                                    !.read = VarIntRead(VarIntWrite(n) \o rest, 0)]
        /\ UNCHANGED <<sessionVars, codecVars, worldVars, chunkVars,
                       blockVars, lookVars, emitVars, streamVars,
                       moreVars>>

\* VarInt.read(data)
varint_read ==
    \E data \in VarIntInputs :
        /\ probe' = [NoProbe EXCEPT !.op = "read", !.data = data,
                                    !.read = VarIntRead(data, 0)]
        /\ UNCHANGED <<sessionVars, codecVars, worldVars, chunkVars,
                       blockVars, lookVars, emitVars, streamVars,
                       moreVars>>

\* PacketBuffer(data).read_string()
buffer_read_string ==
    \E data \in StringInputs :
        LET r == read_string(data, 0)
        IN  /\ probe' = [NoProbe EXCEPT !.op = "read_string", !.data = data,
                                        !.read = VarIntRead(data, 0),
                                        !.ok = r.ok, !.string = r.string,
                                        !.offset = r.offset]
            /\ UNCHANGED <<sessionVars, codecVars, worldVars, chunkVars,
                           blockVars, lookVars, emitVars, streamVars,
                           moreVars>>

CodecNext ==
    \/ varint_write
    \/ varint_read
    \/ buffer_read_string

CodecSpec == WorldInit /\ [][CodecNext]_vars

\* ================================================================ events
\* on() and _emit() for one event name.  A handler is what it does when
\* called: return, raise an Exception, or return a coroutine that, awaited,
\* returns or raises an Exception.
MaxHandlers == 3

HandlerKinds == { "returns", "raises", "async_returns", "async_raises" }

\* on(event, handler): the handler is appended to the event's list.  Any
\* task, or a handler that is running, can call it.
on ==
    \E kind \in HandlerKinds :
        /\ Len(event_handlers) < MaxHandlers
        /\ event_handlers' = Append(event_handlers, kind)
        /\ UNCHANGED <<sessionVars, codecVars, worldVars, chunkVars,
                       blockVars, lookVars, emit_pos, emit_awaiting, invoked,
                       emit_raised, probeVars, streamVars,
                       moreVars>>

\* `for handler in self._event_handlers[event]`: the list iterator moves to
\* the next index the list has at that time, or the loop and _emit end.
EmitAdvance ==
    /\ emit_pos' = (IF emit_pos < Len(event_handlers) THEN emit_pos + 1
                    ELSE 0)
    /\ emit_awaiting' = FALSE

\* _emit(event) is called: without a list for the event it returns at once.
emit_begin ==
    /\ emit_pos = 0
    /\ emit_pos' = (IF event_handlers = <<>> THEN 0 ELSE 1)
    /\ invoked' = <<>>
    /\ emit_raised' = FALSE
    /\ UNCHANGED <<sessionVars, codecVars, worldVars, chunkVars, blockVars,
                   lookVars, event_handlers, emit_awaiting, probeVars,
                   streamVars,
                   moreVars>>

\* handler(*args) returned a value that is no coroutine.
emit_handler_returned ==
    /\ emit_pos > 0
    /\ ~emit_awaiting
    /\ event_handlers[emit_pos] = "returns"
    /\ invoked' = Append(invoked, emit_pos)
    /\ EmitAdvance
    /\ UNCHANGED <<sessionVars, codecVars, worldVars, chunkVars, blockVars,
                   lookVars, event_handlers, emit_raised, probeVars,
                   streamVars,
                   moreVars>>

\* handler(*args) returned a coroutine: `await result` suspends _emit.
emit_handler_awaited ==
    /\ emit_pos > 0
    /\ ~emit_awaiting
    /\ event_handlers[emit_pos] \in {"async_returns", "async_raises"}
    /\ invoked' = Append(invoked, emit_pos)
    /\ emit_awaiting' = TRUE
    /\ UNCHANGED <<sessionVars, codecVars, worldVars, chunkVars, blockVars,
                   lookVars, event_handlers, emit_pos, emit_raised,
                   probeVars, streamVars,
                   moreVars>>

\* The awaited coroutine returned.
emit_handler_resumed ==
    /\ emit_pos > 0
    /\ emit_awaiting
    /\ event_handlers[emit_pos] = "async_returns"
    /\ EmitAdvance
    /\ UNCHANGED <<sessionVars, codecVars, worldVars, chunkVars, blockVars,
                   lookVars, event_handlers, invoked, emit_raised,
                   probeVars, streamVars,
                   moreVars>>

\* Variant: the exception leaves _emit.
emit_handler_raised_out ==
    /\ emit_pos > 0
    /\ \/ ~emit_awaiting /\ event_handlers[emit_pos] = "raises"
       \/ emit_awaiting /\ event_handlers[emit_pos] = "async_raises"
    /\ invoked' = (IF emit_awaiting THEN invoked
                   ELSE Append(invoked, emit_pos))
    /\ emit_pos' = 0
    /\ emit_awaiting' = FALSE
    /\ emit_raised' = TRUE
    /\ UNCHANGED <<sessionVars, codecVars, worldVars, chunkVars, blockVars,
                   lookVars, event_handlers, probeVars, streamVars,
                   moreVars>>

\* The handler, called or awaited, raised an Exception: `except Exception`
\* logs it and the loop goes on.
emit_handler_raised ==
    /\ emit_pos > 0
    /\ \/ ~emit_awaiting /\ event_handlers[emit_pos] = "raises"
       \/ emit_awaiting /\ event_handlers[emit_pos] = "async_raises"
    /\ invoked' = (IF emit_awaiting THEN invoked
                   ELSE Append(invoked, emit_pos))
    /\ EmitAdvance
    /\ UNCHANGED <<sessionVars, codecVars, worldVars, chunkVars, blockVars,
                   lookVars, event_handlers, emit_raised, probeVars,
                   streamVars,
                   moreVars>>

EmitNext ==
    \/ on
    \/ emit_begin
    \/ emit_handler_returned
    \/ emit_handler_awaited
    \/ emit_handler_resumed
    \/ emit_handler_raised

EmitSpec == WorldInit /\ [][EmitNext]_vars

\* ============================================================ the stream
\* receive_packet fed by a server that writes well-formed frames, the socket
\* delivering their bytes in reads of any size.
MaxFrames == 2

StreamIds == { 0, 200 }
StreamLens == { 0, 127 }
ReadSizes == { 1, 2, 129 }

\* The server writes a frame (the framing of send_packet, under the
\* threshold of the session): its bytes queue up behind those in flight.
server_write ==
    \E packet_id \in StreamIds, n \in StreamLens :
        LET data == [i \in 1 .. n |-> 7]
            frame == send_packet_frame(packet_id, data, threshold)
        IN  /\ Len(stream_frames) < MaxFrames
            /\ stream_frames' =
                  Append(stream_frames,
                         [id |-> packet_id, data |-> data, frame |-> frame])
            /\ stream_left' = stream_left \o frame
            /\ UNCHANGED <<sessionVars, codecVars, worldVars, chunkVars,
                           blockVars, lookVars, emitVars, probeVars, handed,
                           moreVars>>

\* receive_packet from the top of its loop with buffer `buf`; a packet it
\* returns is handed to run().
StreamReceiveFrom(buf) ==
    /\ ReceiveFrom(buf)
    /\ handed' = (IF receive_frame(buf).got THEN Append(handed, rx')
                  ELSE handed)

\* run() calls receive_packet.
stream_receive_packet ==
    /\ rxpc = "call"
    /\ StreamReceiveFrom(receive_buffer)
    /\ UNCHANGED <<sessionVars, tx, worldVars, chunkVars, blockVars,
                   lookVars, emitVars, probeVars, stream_frames,
                   stream_left,
                   moreVars>>

\* reader.read(4096) returns the next n bytes in flight.
stream_reader_read ==
    \E n \in ReadSizes \cup {Len(stream_left)} :
        /\ rxpc = "read"
        /\ 1 <= n /\ n <= Len(stream_left)
        /\ StreamReceiveFrom(receive_buffer \o SubSeq(stream_left, 1, n))
        /\ stream_left' = SubSeq(stream_left, n + 1, Len(stream_left))
        /\ UNCHANGED <<sessionVars, tx, worldVars, chunkVars, blockVars,
                       lookVars, emitVars, probeVars, stream_frames,
                       moreVars>>

StreamNext ==
    \/ server_write
    \/ stream_receive_packet
    \/ stream_reader_read
    \/ wire_receive_timeout

\* A session in Play, without compression or with threshold 128 (the empty
\* payloads go plain, the others compressed), nothing written yet.
StreamInit ==
    /\ WireInit
    /\ state = PLAY
    /\ threshold \in {-1, 128}

StreamSpec == StreamInit /\ [][StreamNext]_vars

\* ================================================= the host's disconnect
\* The host awaits bot.disconnect() once, while run() is suspended in
\* wait_for(receive_packet()); the call runs as a task of its own beside
\* run() and the tick.
HostKeeps == <<codecVars, worldVars, chunkVars, blockVars, lookVars,
               emitVars, probeVars, streamVars, writerVars, taskVars>>

\* disconnect(): the running flag is cleared and the tick task cancelled;
\* the call awaits the task.
host_disconnect_begin ==
    /\ hpc = "none"
    /\ running
    /\ rpc = "recv"
    /\ running' = FALSE
    /\ tickCancel' = TickAlive
    /\ hpc' = "disc_task"
    /\ host_stopped' = TRUE
    /\ UNCHANGED <<protoVars, in_configuration, joined_game, spawn_confirmed,
                   health, food, auto_reconnect, tick, loopVars, sentVars,
                   eventVars, runs, ndisc, HostKeeps>>

\* ... the task is torn down (or there is none): protocol.disconnect()
\* clears _connected and closes the writer; the transport closes, the
\* reader is fed end-of-file, and the call awaits wait_closed().
host_disconnect_close ==
    /\ hpc = "disc_task"
    /\ tick \in {"none", "done"}
    /\ connected' = FALSE
    /\ writerOpen' = FALSE
    /\ connLost' = TRUE
    /\ hpc' = "disc_closed"
    /\ UNCHANGED <<state, threshold, botVars, tickVars, loopVars, sentVars,
                   eventVars, runs, ndisc, host_stopped, HostKeeps>>

\* ... `disconnect` is emitted and the call returns to the host.
host_disconnect_emit ==
    /\ hpc = "disc_closed"
    /\ ndisc' = Bump(ndisc)
    /\ hpc' = "returned"
    /\ UNCHANGED <<sessionVars, host_stopped, HostKeeps>>

HostNext ==
    \/ run_connect
    \/ connect_opened
    \/ connect_handshake_sent
    \/ connect_done
    \/ connect_failed
    \/ handle_login_success
    \/ handle_login_success_acknowledged
    \/ handle_config_finish
    \/ handle_config_finish_acknowledged
    \/ handle_synchronize_player_position
    \/ handle_synchronize_player_position_confirmed
    \/ handle_synchronize_player_position_spawned
    \/ handle_disconnect
    \/ handler_drained
    \/ handler_drain_raised
    \/ recv_timeout
    \/ recv_closed
    \/ connection_lost
    \/ disconnect_begin
    \/ disconnect_close
    \/ disconnect_emit
    \/ run_again
    \/ tick_start
    \/ tick_step
    \/ tick_drained
    \/ tick_cancelled
    \/ host_disconnect_begin
    \/ host_disconnect_close
    \/ host_disconnect_emit

HostSpec == Init /\ [][HostNext]_vars

\* ===================================================== the login stream
\* A session in Login: the server writes SetCompression and other frames,
\* each framed under the threshold the server has set so far; the bytes
\* arrive in reads of any size; run() takes each packet from receive_packet
\* and awaits its handler before it calls receive_packet again.
MaxLoginFrames == 3

LoginStreamIds == { SET_COMPRESSION, 200 }
LoginStreamLens == { 0, 5 }
SetThresholds == { 0, 4 }

\* What one reader.read() returns: a piece of a frame, or all that is in
\* flight (several frames at once).
LoginReadSizes == { 1, 7 }

\* The threshold the server frames with: that of the last SetCompression
\* among frames 1 .. n, and none before the first.
RECURSIVE ServerThreshold(_)
ServerThreshold(n) ==
    IF n = 0 THEN -1
    ELSE IF stream_frames[n].id = SET_COMPRESSION
         THEN VarIntRead(stream_frames[n].data, 0).value
         ELSE ServerThreshold(n - 1)

login_server_write ==
    \E packet_id \in LoginStreamIds, n \in LoginStreamLens,
       t \in SetThresholds :
        LET data == IF packet_id = SET_COMPRESSION THEN VarIntWrite(t)
                    ELSE [i \in 1 .. n |-> 7]
            frame == send_packet_frame(packet_id, data,
                                       ServerThreshold(Len(stream_frames)))
        IN  /\ Len(stream_frames) < MaxLoginFrames
            /\ packet_id = SET_COMPRESSION => n = 0
            /\ packet_id # SET_COMPRESSION => t = 0
            /\ stream_frames' =
                  Append(stream_frames,
                         [id |-> packet_id, data |-> data, frame |-> frame])
            /\ stream_left' = stream_left \o frame
            /\ UNCHANGED <<sessionVars, codecVars, worldVars, chunkVars,
                           blockVars, lookVars, emitVars, probeVars, handed,
                           moreVars>>

\* Variant: the threshold takes effect one frame late -- never, for the
\* frame that follows.
set_compression_ignored(old, new) == old

\* MinecraftProtocol.set_compression: the threshold is the new one at once.
set_compression(old, new) == new

\* A packet as run() got it, with the number of bytes receive_packet left in
\* its buffer.
WithLeft(p, n) ==
    [f \in DOMAIN p \cup {"left"} |-> IF f = "left" THEN n ELSE p[f]]

\* receive_packet from the top of its loop with buffer `buf`, and, when it
\* returns a packet, _handle_packet: _handle_set_compression reads the
\* threshold and sets it; the other packets of this stream have no handler
\* in Login.
LoginReceiveFrom(buf) ==
    LET f == receive_frame(buf)
        p == receive_decode(f.packet_data, threshold)
        got == f.got /\ p.kind = "packet"
        t == VarIntRead(p.body, 0)
    IN  /\ ReceiveFrom(buf)
        /\ handed' = (IF got THEN Append(handed, WithLeft(p, Len(f.rest)))
                      ELSE handed)
        /\ threshold' =
              (IF /\ got
                  /\ packet_handlers(state, p.id) = "handle_set_compression"
                  /\ t.ok
               THEN set_compression(threshold, t.value)
               ELSE threshold)

LoginStreamKeeps ==
    <<state, connected, writerOpen, connLost, botVars, tickVars, loopVars,
      sentVars, eventVars, runs, tx, worldVars, chunkVars, blockVars,
      lookVars, emitVars, probeVars, stream_frames, moreVars>>

\* run() calls receive_packet.
login_receive_packet ==
    /\ rxpc = "call"
    /\ LoginReceiveFrom(receive_buffer)
    /\ UNCHANGED <<LoginStreamKeeps, stream_left>>

\* reader.read(4096) returns the next n bytes in flight.
login_reader_read ==
    \E n \in LoginReadSizes \cup {Len(stream_left)} :
        /\ rxpc = "read"
        /\ 1 <= n /\ n <= Len(stream_left)
        /\ LoginReceiveFrom(receive_buffer \o SubSeq(stream_left, 1, n))
        /\ stream_left' = SubSeq(stream_left, n + 1, Len(stream_left))
        /\ UNCHANGED LoginStreamKeeps

LoginStreamNext ==
    \/ login_server_write
    \/ login_receive_packet
    \/ login_reader_read

\* A session in Login, compression not yet set, nothing written.
LoginStreamInit ==
    /\ WireInit
    /\ state = LOGIN
    /\ threshold = -1

LoginStreamSpec == LoginStreamInit /\ [][LoginStreamNext]_vars

\* ========================================================= the bot API
\* The host calls jump(), sneak() or chat() at any moment of a session, with
\* the frames the calls write kept in frames_out.
MaxApiCalls == 2

BotApi == { "jump", "sneak", "chat" }

\* send_player_position 0x1C, send_player_command 0x25, send_chat_message
\* 0x07.
BotApiPacketId(f) ==
    CASE f = "jump" -> 28
      [] f = "sneak" -> 37
      [] f = "chat" -> 7

\* Variant: the call writes in Play only.
bot_api_allowed_in_play(st, open) == open /\ st = PLAY

\* `if self._protocol:` and send_packet's `if not self._writer: raise`: the
\* call writes when there is a writer, whatever the protocol state.
bot_api_allowed(st, open) == open

bot_api_call ==
    \E f \in BotApi :
        /\ bot_api_allowed(state, writerOpen)
        /\ Len(frames_out) < MaxApiCalls
        /\ frames_out' = Append(frames_out,
                                send_packet_frame(BotApiPacketId(f), <<>>,
                                                  threshold))
        /\ UNCHANGED <<sessionVars, codecVars, worldVars, chunkVars,
                       blockVars, lookVars, emitVars, probeVars, streamVars,
                       sock, cipher_pos, wpc, encryption, hostVars,
                       taskVars>>

ApiNext ==
    \/ run_connect
    \/ connect_opened
    \/ connect_handshake_sent
    \/ connect_done
    \/ handle_login_success
    \/ handle_login_success_acknowledged
    \/ handle_config_finish
    \/ handle_config_finish_acknowledged
    \/ handler_drained
    \/ handle_synchronize_player_position
    \/ handle_synchronize_player_position_confirmed
    \/ handle_synchronize_player_position_spawned
    \/ handle_start_configuration
    \/ handle_start_configuration_acknowledged
    \/ tick_start
    \/ tick_step
    \/ tick_drained
    \/ bot_api_call

ApiSpec == Init /\ [][ApiNext]_vars

\* ============================================================ the writer
\* send_packet called by several tasks of one session in Play, with or
\* without an EncryptionContext.
MaxWrites == 3

WriterIds == { 0, 29 }
WriterLens == { 0, 2 }

\* AES/CFB8 as a stream cipher: what a byte becomes depends on the key and
\* on its position in the stream the encryptor has taken (here through a
\* keystream by position), and the peer's decryptor undoes it position by
\* position.
KeyStream(pos) == (pos * 37 + 11) % 256

\* EncryptionContext.encrypt(data), the encryptor having taken pos bytes.
encrypt(data, pos) ==
    [i \in 1 .. Len(data) |-> (data[i] + KeyStream(pos + i - 1)) % 256]

\* The peer's decryptor over the bytes it received from the start.
decrypt(data) ==
    [i \in 1 .. Len(data) |-> (data[i] + 256 - KeyStream(i - 1)) % 256]

\* _apply_encryption: encrypt when a context is installed.
apply_encryption(data, pos, enc) == IF enc THEN encrypt(data, pos) ELSE data

\* Variant: the first byte is written, the rest after the suspension.
first_write_prefix(encrypted) == SubSeq(encrypted, 1, 1)

\* `self._writer.write(encrypted)`: the bytes that reach the writer before
\* send_packet suspends in drain() -- all of them.
first_write(encrypted) == encrypted

\* enable_encryption(shared_secret), before anything is written.
enable_encryption ==
    /\ ~encryption
    /\ frames_out = <<>>
    /\ encryption' = TRUE
    /\ UNCHANGED <<sessionVars, codecVars, worldVars, chunkVars, blockVars,
                   lookVars, emitVars, probeVars, streamVars, sock,
                   cipher_pos, frames_out, wpc, hostVars, taskVars>>

\* A task calls send_packet: the frame is built, encrypted and written, and
\* the call suspends in drain().
task_send_packet ==
    \E t \in WriterTasks, packet_id \in WriterIds, n \in WriterLens :
        LET data == [i \in 1 .. n |-> 7]
            frame == send_packet_frame(packet_id, data, threshold)
            encrypted == apply_encryption(frame, cipher_pos, encryption)
            now == first_write(encrypted)
        IN  /\ writerOpen
            /\ wpc[t].at = "idle"
            /\ Len(frames_out) < MaxWrites
            /\ frames_out' = Append(frames_out, frame)
            /\ cipher_pos' = (IF encryption THEN cipher_pos + Len(frame)
                              ELSE cipher_pos)
            /\ sock' = sock \o now
            /\ wpc' = [wpc EXCEPT ![t] =
                          [at |-> "drain",
                           rest |-> SubSeq(encrypted, Len(now) + 1,
                                           Len(encrypted))]]
            /\ UNCHANGED <<sessionVars, codecVars, worldVars, chunkVars,
                           blockVars, lookVars, emitVars, probeVars,
                           streamVars, encryption, hostVars, taskVars>>

\* drain() returned to the task: send_packet ends (having written what it
\* had left to write, which is nothing).
task_resumed ==
    \E t \in WriterTasks :
        /\ wpc[t].at = "drain"
        /\ sock' = sock \o wpc[t].rest
        /\ wpc' = [wpc EXCEPT ![t] = Idle]
        /\ UNCHANGED <<sessionVars, codecVars, worldVars, chunkVars,
                       blockVars, lookVars, emitVars, probeVars, streamVars,
                       cipher_pos, frames_out, encryption, hostVars,
                       taskVars>>

WriterNext ==
    \/ enable_encryption
    \/ task_send_packet
    \/ task_resumed

WriterSpec == WorldInit /\ [][WriterNext]_vars

\* =============================================================== claims
\* A handler is past its last suspension, or has returned.
Completed(h) ==
    /\ handler = h
    /\ \/ outcome = "returned"
       \/ outcome = "running" /\ rpc \in {"tail_drain", "tail_emit"}

ClientInformation ==
    [by |-> "recv", op |-> "send_configuration_client_information", id |-> 0,
     st |-> CONFIGURATION, data |-> <<>>]

\* C1: within a session (one MinecraftProtocol instance; run_connect makes a
\* new one) the connection state never decreases in the order
\* Handshaking < Login < Configuration < Play, except for the step
\* Play -> Configuration taken by the StartConfiguration handler.
C1_StateMonotone ==
    [][ \/ rpc = "start"
        \/ state' >= state
        \/ /\ state = PLAY
           /\ state' = CONFIGURATION
           /\ handler = "handle_start_configuration" ]_vars

\* C1 witness: the backward edge was taken, after the session had reached
\* Play through Login and Configuration.
C1_Witness ==
    /\ Completed("handle_start_configuration")
    /\ state = CONFIGURATION
    /\ ackedFinish

\* C2: a LoginSuccess dispatched in Login with a readable body: the first
\* serverbound packet written from its dispatch on is LoginAcknowledged (id
\* 0x03, written in Login), whatever the tick task and the host do; and once
\* the handler has resumed from that write's drain the state is
\* Configuration.
C2_LoginSuccess ==
    (handler = "handle_login_success" /\ pkt.ok) =>
        /\ outcome # "raised" => handlerSent # <<>>
        /\ handlerSent # <<>> =>
              /\ firstSent = handlerSent[1]
              /\ firstSent.op = "send_login_acknowledged"
              /\ firstSent.id = 3
              /\ firstSent.st = LOGIN
        /\ Completed("handle_login_success") => state = CONFIGURATION

C2_Witness ==
    /\ handler = "handle_login_success"
    /\ outcome = "returned"
    /\ state = CONFIGURATION
    /\ firstSent.op = "send_login_acknowledged"

\* C3: a FinishConfiguration dispatched in Configuration: the handler writes
\* the FinishAck (id 0x03, in Configuration) and, when it returns, the state
\* is Play; and the state is Play only in a session in which a FinishAck was
\* written in Configuration.
C3_FinishConfiguration ==
    /\ handler = "handle_config_finish" =>
          /\ outcome # "raised" =>
                /\ handlerSent # <<>>
                /\ IsFinishAck(handlerSent[1])
          /\ outcome = "returned" => state = PLAY
    /\ state = PLAY => ackedFinish

C3_Witness ==
    /\ handler = "handle_config_finish"
    /\ outcome = "returned"
    /\ state = PLAY

\* C4: a StartConfiguration dispatched in Play: once the handler is past the
\* drain of its first packet the state is Configuration and it has written
\* client-information again, in Configuration; and a FinishConfiguration
\* handled after that returns the state to Play.
C4_StartConfiguration ==
    /\ Completed("handle_start_configuration") =>
          /\ state = CONFIGURATION
          /\ Len(handlerSent) = 2
          /\ handlerSent[1].st = PLAY
          /\ handlerSent[2] = ClientInformation
    /\ (handler = "handle_config_finish" /\ outcome = "returned") =>
          state = PLAY

\* C4 witness: Play was left by a StartConfiguration (the join flag it
\* resets is down although `join` was emitted this session) and a
\* FinishConfiguration has brought the state back to Play.
C4_Witness ==
    /\ handler = "handle_config_finish"
    /\ outcome = "returned"
    /\ state = PLAY
    /\ njoin >= 1
    /\ ~joined_game

\* C5: a SynchronizePlayerPosition dispatched in Play with a readable body:
\* the first serverbound packet written from its dispatch on, by any task, is
\* the handler's TeleportConfirm (id 0x00) carrying the received teleport
\* id; no position packet of the tick task or the host precedes it.
C5_TeleportConfirmFirst ==
    (handler = "handle_synchronize_player_position" /\ pkt.ok) =>
        /\ outcome # "raised" => handlerSent # <<>>
        /\ handlerSent # <<>> =>
              /\ firstSent = handlerSent[1]
              /\ firstSent.by = "recv"
              /\ firstSent.op = "send_teleport_confirm"
              /\ firstSent.id = 0
              /\ firstSent.st = PLAY
              /\ firstSent.data = pkt.wire

\* C5 witness: the confirm of teleport id 128 is out while the tick task is
\* alive and mid-write.
C5_Witness ==
    /\ handler = "handle_synchronize_player_position"
    /\ rpc = "sp_drain"
    /\ pkt.wire = <<128, 1>>
    /\ firstSent.op = "send_teleport_confirm"
    /\ tick = "drain"

\* C6: a KeepAlive dispatched in Play or in Configuration with a readable
\* body: the first serverbound packet written from its dispatch on is the
\* handler's KeepAlive answer (0x18 in Play, 0x04 in Configuration) with the
\* 8 bytes received, and it is the only packet the handler writes.
C6_KeepAliveEcho ==
    (handler \in {"handle_keep_alive", "handle_config_keep_alive"} /\ pkt.ok) =>
        /\ outcome # "raised" => handlerSent # <<>>
        /\ handlerSent # <<>> =>
              /\ Len(handlerSent) = 1
              /\ firstSent = handlerSent[1]
              /\ firstSent.by = "recv"
              /\ firstSent.data = pkt.wire
              /\ IF handler = "handle_keep_alive"
                 THEN /\ firstSent.op = "send_keep_alive"
                      /\ firstSent.id = 24
                      /\ firstSent.st = PLAY
                 ELSE /\ firstSent.op = "send_configuration_keep_alive"
                      /\ firstSent.id = 4
                      /\ firstSent.st = CONFIGURATION

\* C6 witness: the negative id 0xDEADBEEFCAFEBABE was echoed in Play.
C6_Witness ==
    /\ handler = "handle_keep_alive"
    /\ outcome = "returned"
    /\ pkt.wire = <<222, 173, 190, 239, 202, 254, 186, 190>>
    /\ firstSent.data = pkt.wire

\* C7 (as claimed): `spawn` is emitted at most once in a session.
C7_SpawnOnce == nspawn <= 1

\* C8 (as claimed): `join` is emitted at most once in a session.
C8_JoinOnce == njoin <= 1

HealthEvent == [ev |-> "health", args |-> <<pkt.health, pkt.food>>]
DeathEvent == [ev |-> "death", args |-> <<>>]

\* C9: a SetHealth handled with a readable body: `health` is emitted first,
\* with the new health and food; `death` is emitted after it exactly when the
\* new health is <= 0; nothing else is emitted.
C9_HealthThenDeath ==
    (handler = "handle_update_health" /\ pkt.ok) =>
        /\ health = pkt.health
        /\ food = pkt.food
        /\ handlerEmitted # <<>>
        /\ handlerEmitted[1] = HealthEvent
        /\ Len(handlerEmitted) = 2 =>
              /\ handlerEmitted[2] = DeathEvent
              /\ pkt.health <= 0
        /\ Len(handlerEmitted) <= 2
        /\ outcome = "returned" =>
              handlerEmitted = (IF pkt.health <= 0
                                THEN <<HealthEvent, DeathEvent>>
                                ELSE <<HealthEvent>>)

\* C9 witness: SetHealth(health = 0) was handled to the end.
C9_Witness ==
    /\ handler = "handle_update_health"
    /\ outcome = "returned"
    /\ pkt.health = 0
    /\ handlerEmitted = <<HealthEvent, DeathEvent>>

SessionEndingHandlers ==
    { "handle_login_disconnect", "handle_config_disconnect",
      "handle_disconnect", "handle_encryption_request" }

\* C10 (as claimed): after a LoginDisconnect, a Configuration or Play
\* Disconnect or an EncryptionRequest was dispatched, whatever its body, the
\* running flag is false and the loop has left for disconnect(): it reads no
\* further packet.
C10_DisconnectEndsSession ==
    handler \in SessionEndingHandlers =>
        /\ ~running
        /\ rpc # "recv"

\* C11: when the 30-second read times out the loop reads again if the state
\* is Play, and leaves for the finally block, where disconnect() runs, in
\* every other state.
C11_Timeout ==
    [][recv_timeout =>
          IF state = PLAY THEN rpc' = "recv" ELSE rpc' = "finally"]_vars

\* C11 witness: the loop was left with the running flag up and the
\* connection alive, which only a timeout outside Play does; the session
\* had been through Play before (where timeouts did not end it) and was
\* sent back to Configuration.
C11_Witness ==
    /\ rpc = "finally"
    /\ running
    /\ ~connLost
    /\ state = CONFIGURATION
    /\ ackedFinish

\* C12: after an exception raised inside a packet handler the loop is at
\* the next read: the session is still running and connected, and the
\* finally block was not entered.
C12_HandlerExceptionCaught ==
    outcome = "raised" => rpc = "recv" /\ running /\ connected

\* C12 witness: StartConfiguration's handler raised at a drain, having
\* changed nothing; the loop reads on.
C12_Witness ==
    /\ outcome = "raised"
    /\ handler = "handle_start_configuration"
    /\ state = PLAY
    /\ rpc = "recv"

\* C13: once disconnect() has closed the writer and from then until run()
\* goes on, the running flag is false, the tick task has ended and no
\* cancellation is pending, and the writer is closed; and a tick task that
\* has ended stays ended.
C13_DisconnectTeardown ==
    /\ [](rpc \in {"disc_closed", "reconnect_sleep"} =>
            /\ ~running
            /\ tick \in {"none", "done"}
            /\ ~tickCancel
            /\ ~writerOpen
            /\ ~connected)
    /\ [][tick = "done" => tick' = "done"]_vars

\* C13 witness: disconnect() closed the writer after a tick task that had
\* been started in this session was cancelled.
C13_Witness ==
    /\ rpc = "disc_closed"
    /\ tick = "done"
    /\ spawn_confirmed
    /\ ~writerOpen

\* C14 (as claimed): when run() has returned, the socket writer is closed.
C14_SocketClosed == rpc = "returned" => ~writerOpen

\* C15 (as claimed): reconnection does not nest run() invocations: at most
\* one is active.
C15_RunsBounded == runs <= 1

\* C16 (as claimed): a compression threshold that is positive is not
\* changed by any step of its session (run_connect, taken from "start",
\* begins a new one).
C16_ThresholdKept ==
    [][(threshold > 0 /\ rpc # "start") => threshold' = threshold]_vars

\* C17: the frame send_packet writes for payload P = packet id + data
\* under threshold T.  The leading VarInt counts exactly the bytes after
\* it.  For T >= 0 the next VarInt, data_length, is 0 and the body is P
\* when |P| < T, and is |P| with a body that inflates to P when |P| >= T;
\* without compression the body is P.
C17_Framing ==
    tx # NoTx =>
        LET P == VarIntWrite(tx.id) \o tx.data
            L == VarIntRead(tx.frame, 0)
            D == VarIntRead(tx.frame, L.offset)
            body == SubSeq(tx.frame, D.offset + 1, Len(tx.frame))
        IN  /\ L.ok
            /\ L.value = Len(tx.frame) - L.offset
            /\ IF threshold < 0
               THEN SubSeq(tx.frame, L.offset + 1, Len(tx.frame)) = P
               ELSE /\ D.ok
                    /\ IF Len(P) < threshold
                       THEN D.value = 0 /\ body = P
                       ELSE /\ D.value = Len(P)
                            /\ Inflate(body) = [ok |-> TRUE, data |-> P]

\* C17 witness: a payload of exactly the threshold's size went out
\* compressed, and one of 129 bytes took a two-byte data_length.
C17_Witness ==
    /\ tx # NoTx
    /\ \/ threshold = 3 /\ Len(tx.data) = 2 /\ tx.frame[2] = 3
       \/ threshold = 128 /\ Len(tx.data) = 128 /\ tx.id = 29

\* C18 (as claimed): in compressed mode a packet handed to the dispatcher
\* from a frame with a non-zero data_length has exactly data_length bytes
\* after inflation.
C18_InflatedSizeChecked ==
    (rx.kind = "packet" /\ threshold >= 0 /\ rx.declared > 0) =>
        rx.declared = rx.size

MalformedHead(buf) ==
    Len(buf) >= 5 /\ \A i \in 1 .. 5 : buf[i] >= 128

\* C19 (as claimed): receive_packet never awaits further bytes, and run()
\* never calls it again, with a malformed VarInt at the head of the receive
\* buffer: that is the end of the loop.
C19_MalformedLengthTerminal ==
    MalformedHead(receive_buffer) => rxpc = "ended"

\* C20 (as claimed): an entity id that RemoveEntities has removed from
\* WorldState.entities in this session is not in WorldState.entities.
C20_NoResurrection == removed \cap DOMAIN entities = {}

\* C21: a chunk is in loaded_chunks from its ChunkData to its UnloadChunk or
\* the end of the session: once a session has ended, and while the next one
\* connects and logs in, loaded_chunks holds no chunk.
C21_ChunksEndWithSession ==
    rpc \in {"reconnect_sleep", "returned", "start", "open", "hs_drain",
             "ls_drain"}
        => loaded_chunks = {}

\* C22: after every look(yaw, pitch) or look_relative(dyaw, dpitch) that the
\* position tick has applied, the player's yaw is in [0, 360) and the
\* player's pitch in [-90, 90].  (The session starts from yaw 0, pitch 0 and
\* only these calls change them.)
C22_LookWrapped ==
    /\ 0 <= yaw /\ yaw < 360
    /\ -90 <= pitch /\ pitch <= 90

\* C23: after a BlockUpdate handler completes the block-change log holds at
\* most 1000 records, in arrival order without a gap up to the latest; an
\* append that takes it past 1000 leaves exactly the 500 most recent, so
\* after 1001 BlockUpdate packets the log has length 500 and holds updates
\* 502..1001.
C23_LogCut ==
    /\ [](/\ Len(block_changes) <= BlockLogLimit
          /\ \A i \in 1 .. Len(block_changes) - 1 :
                block_changes[i + 1] = block_changes[i] + 1
          /\ (block_changes # <<>>
                /\ block_changes[Len(block_changes)] = 1001)
                => (Len(block_changes) = 500 /\ block_changes[1] = 502))
    /\ [][(Len(block_changes) = BlockLogLimit
             /\ block_changes' # block_changes)
            => (/\ Len(block_changes') = BlockLogKeep
                /\ block_changes'[BlockLogKeep] = NextArrival
                /\ SubSeq(block_changes', 1, BlockLogKeep - 1)
                     = SubSeq(block_changes, BlockLogLimit - BlockLogKeep + 2,
                              BlockLogLimit))]_vars

C23_Witness ==
    /\ handler = "handle_block_update"
    /\ outcome = "returned"
    /\ Len(block_changes) = 500
    /\ block_changes[500] = 1001

\* C24: for every signed 32-bit integer n, VarInt.read(VarInt.write(n))
\* returns n and consumes exactly the bytes written, and VarInt.write(n) is
\* 1 to 5 bytes long.
C24_VarIntRoundTrip ==
    probe.op = "write"
        => /\ probe.read.ok
           /\ ~probe.read.wide
           /\ probe.read.value = probe.n
           /\ probe.read.offset = Len(probe.written)
           /\ Len(probe.written) \in 1 .. 5

C24_Witness ==
    /\ probe.op = "write"
    /\ probe.n = -2147483647 - 1
    /\ probe.written = <<128, 128, 128, 128, 8>>
    /\ Len(probe.data) > 5
    /\ probe.read.value = probe.n

\* C25: for every byte sequence, VarInt.read fails or returns a value in
\* [-2^31, 2^31), also for a five-byte encoding whose fifth byte has value
\* bits above bit 31.
C25_VarIntInRange ==
    (probe.op = "read" /\ probe.read.ok) => ~probe.read.wide

\* C26: read_string on a buffer whose length prefix exceeds the bytes that
\* remain after it is rejected; it returns no shortened string.
C26_ShortStringRejected ==
    (/\ probe.op = "read_string"
     /\ probe.read.ok
     /\ probe.read.value > Len(probe.data) - probe.read.offset)
        => ~probe.ok

\* C27: an emit invokes every handler registered for the event exactly
\* once, in registration order; a handler that raises stops no later
\* handler and its exception does not reach the emitter.  (While the emit
\* is under way the handlers before its position have been invoked once
\* each, in order; when it ends, all of them have.)
C27_EmitAll ==
    /\ [](/\ ~emit_raised
          /\ emit_pos > 0
                => invoked = [i \in 1 .. (IF emit_awaiting THEN emit_pos
                                          ELSE emit_pos - 1) |-> i])
    /\ [][(emit_pos > 0 /\ emit_pos' = 0)
            => invoked' = [i \in 1 .. Len(event_handlers) |-> i]]_vars

C27_Witness ==
    /\ emit_pos = 0
    /\ event_handlers = <<"raises", "async_raises", "returns">>
    /\ invoked = <<1, 2, 3>>

\* C28: the reply to a KnownPacks packet dispatched in Configuration is a
\* known-packs response with an empty pack list (the count 0 and nothing
\* more), whatever packs the server listed.
C28_EmptyPackReply ==
    (handler = "handle_config_known_packs" /\ handlerSent # <<>>)
        => /\ handlerSent[1].op = "send_known_packs_response"
           /\ handlerSent[1].data = <<0>>

\* C29: in every session, reconnections included, once a
\* SynchronizePlayerPosition has been handled, while the bot is running
\* with state Play, a position-tick task is active (created and not ended).
C29_TickActive ==
    (/\ Completed("handle_synchronize_player_position")
     /\ running
     /\ state = PLAY)
        => tick \in {"created", "sleep", "drain"}

\* The bytes of frames i .. j of the stream, in order.
RECURSIVE FrameBytes(_, _)
FrameBytes(i, j) ==
    IF i > j THEN <<>> ELSE stream_frames[i].frame \o FrameBytes(i + 1, j)

\* C30: for every sequence of well-formed frames and every split of their
\* bytes into socket reads, receive_packet hands off exactly those frames,
\* each once and in order (what was handed off is the frames written so
\* far, up to the first not yet complete; none is left once all bytes
\* arrived; no call fails), and a read that leaves a partial length VarInt
\* or a partial frame at the head of the accumulator removes no bytes from
\* it (the frames handed off, the accumulator and the bytes in flight make
\* up the stream; a pass that hands off nothing keeps all bytes).
C30_FramesHandedOff ==
    /\ [](/\ Len(handed) <= Len(stream_frames)
          /\ \A i \in 1 .. Len(handed) :
                /\ handed[i].kind = "packet"
                /\ handed[i].id = stream_frames[i].id
                /\ handed[i].body = stream_frames[i].data
          /\ rxpc # "ended"
          /\ FrameBytes(1, Len(handed)) \o receive_buffer \o stream_left
                = FrameBytes(1, Len(stream_frames))
          /\ (rxpc = "read" /\ stream_left = <<>>)
                => (Len(handed) = Len(stream_frames)
                    /\ receive_buffer = <<>>)
          /\ rxpc = "read"
                => ~receive_frame(receive_buffer).got)
    /\ [][(handed' = handed /\ stream_frames' = stream_frames)
            => receive_buffer' \o stream_left'
                 = receive_buffer \o stream_left]_vars

C30_Witness ==
    /\ Len(stream_frames) = 2
    /\ Len(handed) = 1
    /\ rxpc = "read"
    /\ Len(receive_buffer) = 1
    /\ receive_buffer[1] >= 128
    /\ stream_left # <<>>

\* C31: a packet whose body is shorter than the fields its handler reads is
\* dropped: the handler's failure leaves the player state (health, food)
\* and the joined and spawn-confirmed flags as they were before the
\* dispatch, no event is emitted, and the receive loop goes on.
C31_ShortBodyDropped ==
    [][(rpc = "recv" /\ pkt' # pkt /\ ~pkt'.ok /\ outcome' = "raised")
        => /\ UNCHANGED <<joined_game, spawn_confirmed, health, food>>
           /\ handlerEmitted' = <<>>
           /\ rpc' = "recv"]_vars

\* The connection state under which _setup_packet_handlers registers a
\* handler.
HandlerState(h) ==
    IF h \in {"handle_login_disconnect", "handle_encryption_request",
              "handle_login_success", "handle_set_compression"}
    THEN LOGIN
    ELSE IF h \in {"handle_config_plugin_message", "handle_config_disconnect",
                   "handle_config_finish", "handle_config_keep_alive",
                   "handle_config_registry_data",
                   "handle_config_resource_pack_push",
                   "handle_config_feature_flags", "handle_config_known_packs"}
    THEN CONFIGURATION
    ELSE PLAY

\* C32: a received packet without a handler for (state, packet id) is
\* dropped: connection state, player state, world state and flags stay and
\* nothing is written for it; and a packet is only ever handed to a handler
\* registered for the state held at its dispatch.
C32_UnregisteredDropped ==
    /\ [][(rpc = "recv" /\ loopVars' # loopVars /\ outcome' = "dropped")
            => /\ UNCHANGED <<protoVars, botVars, tickVars, sideVars>>
               /\ firstSent' = NoPkt
               /\ handlerSent' = <<>>
               /\ handlerEmitted' = <<>>
               /\ rpc' = "recv"]_vars
    /\ [][(rpc = "recv" /\ loopVars' # loopVars /\ handler' # "none")
            => state = HandlerState(handler')]_vars

C32_Witness ==
    /\ handler = "none"
    /\ outcome = "dropped"
    /\ state = CONFIGURATION
    /\ pkt.id = LOGIN_PLAY

\* The frames i .. j that send_packet built, end to end.
RECURSIVE FramesOut(_, _)
FramesOut(i, j) ==
    IF i > j THEN <<>> ELSE frames_out[i] \o FramesOut(i + 1, j)

\* C33: under every interleaving of the tasks that write, the bytes at the
\* socket writer are the frames one after the other, each whole, in the
\* order send_packet built them; with encryption on, that is also the order
\* in which they went through the encryptor (the peer's decryptor recovers
\* the frames from the bytes in the order written).
C33_FramesContiguous ==
    (IF encryption THEN decrypt(sock) ELSE sock)
        = FramesOut(1, Len(frames_out))

C33_Witness ==
    /\ encryption
    /\ Len(frames_out) = 3
    /\ wpc["recv"].at = "drain"
    /\ wpc["tick"].at = "drain"
    /\ wpc["api"].at = "drain"
    /\ frames_out[1] # frames_out[2]

\* C34: once the packet 0x0C answering StartConfiguration has been written
\* (the handler is in its drain, or has gone on and the state is no longer
\* Play), no step of the tick writes PlayerPositionAndRotation.
C34_NoTickAfterAck ==
    [][(tick = "sleep" /\ tick' = "drain")
        => ~(rpc = "sc_drain" \/ state # PLAY)]_vars

\* C40: a step that writes a Play packet -- the tick's
\* PlayerPositionAndRotation or a packet of a bot API call -- is taken only
\* while the protocol state is Play.
C40_PlayPacketsInPlay ==
    [][((tick = "sleep" /\ tick' = "drain") \/ bot_api_call)
        => state = PLAY]_vars

\* C38: with auto_reconnect set, run() never returns from a reconnection
\* attempt (its second or later connect()): whether the attempt fails to
\* connect or its session ends, another attempt follows.
C38_NeverGivesUp ==
    [][(auto_reconnect /\ runs >= 2) => rpc' # "returned"]_vars

\* C39: at any moment at most one position tick task is running: the one
\* the bot refers to, if it runs, and no other.
C39_OneTickTask == (IF TickAlive THEN 1 ELSE 0) + orphans <= 1

C39_Witness ==
    /\ handler = "handle_synchronize_player_position"
    /\ outcome = "returned"
    /\ nspawn = 2
    /\ tick = "sleep"

\* C35: every frame is decoded under the threshold in effect after the
\* handlers of all frames before it have run -- the one the server framed it
\* with: plain before the first SetCompression, in compressed format after
\* it, also when it arrived in the same read as the SetCompression -- and so
\* run() gets the packets the server wrote, in order.
C35_DecodedUnderCurrentThreshold ==
    /\ Len(handed) <= Len(stream_frames)
    /\ \A i \in 1 .. Len(handed) :
          /\ handed[i].kind = "packet"
          /\ (handed[i].declared >= 0) = (ServerThreshold(i - 1) >= 0)
          /\ handed[i].id = stream_frames[i].id
          /\ handed[i].body = stream_frames[i].data
    /\ rxpc # "ended"
    /\ (rxpc = "call" /\ receive_buffer = <<>> /\ stream_left = <<>>)
          => threshold = ServerThreshold(Len(handed))

C35_Witness ==
    /\ Len(handed) = 3
    /\ handed[1].declared = -1
    /\ handed[2].id = SET_COMPRESSION
    /\ handed[2].declared = -1
    /\ handed[2].left = Len(stream_frames[3].frame)
    /\ handed[3].declared > 0

\* C36: `disconnect` is emitted once for a session that ended, however it
\* ended: never a second time before the next connect(), and once by the
\* time run() has finished its teardown.
C36_DisconnectOnce ==
    /\ ndisc <= 1
    /\ rpc = "reconnect_sleep" => ndisc = 1

\* C37: once the host has called disconnect() on a bot whose run() loop is
\* active, no connection is opened and the running flag is not set again
\* (the host calls neither run() nor connect() afterwards).
C37_StaysDisconnected ==
    [][host_stopped => /\ (rpc' = "open" => rpc = "open")
                       /\ (running' => running)]_vars

====
